---------------------------- MODULE Spec2Model ----------------------------
(***************************************************************************)
(* Market-making strategy variants of the repository, as one state         *)
(* machine.  One strategy object (self) of class strat is driven by clock  *)
(* ticks; its handlers issue cancel / buy / sell calls to the venue.       *)
(*                                                                         *)
(* Units.  Prices are integers in 1e-4 quote units, fractions (spreads,    *)
(* shifts) are integers in 1e-8 units, NATR values are in 1e-2 percentage  *)
(* points, amounts are in 1e-2 base units.                                 *)
(***************************************************************************)
EXTENDS Integers, Sequences, FiniteSets, TLC

VARIABLES
    strat,          \* class of the strategy object
    self,           \* the strategy object's fields
    now,            \* current_timestamp of the latest tick
    active_orders,  \* orders resting at the venue (sides, in placement order)
    calls,          \* venue calls made by the latest handler run, in order
    outcome,        \* the return point the latest handler run left through
    market,         \* what the collaborators reported during the latest run
    cycle_log,      \* timestamps of the latest two triggered cycles
    tasks           \* event-loop tasks running active_order_refresh (their
                    \* suspension points)

vars == <<strat, self, now, active_orders, calls, outcome, market, cycle_log,
          tasks>>

----------------------------------------------------------------------------
(* Bounds of the model *)

MaxTime == 17

TickSteps == {1, 15}

----------------------------------------------------------------------------
(* Arithmetic helpers *)

Frac == 10000 * 10000       \* 1.0 as a fraction in 1e-8 units

None == 0 - 1               \* Python's None for an optional price

Min(a, b) == IF a <= b THEN a ELSE b

Max(a, b) == IF a >= b THEN a ELSE b

Abs(a) == IF a >= 0 THEN a ELSE 0 - a

\* floor(a * b / 1e4) for a >= 0, computed without leaving 32 bits
MulDiv4(a, b) ==
    (a \div 10000) * b + (a % 10000) * (b \div 10000)
        + (((a % 10000) * (b % 10000)) \div 10000)

\* p * (1 + f) for a price p and a signed fraction f (1e-8 units), rounded down
MulFrac(p, f) == p + (MulDiv4(p, f) \div 10000)

\* round(p * (1 + f), 4): the same product rounded to the nearest price unit
MulFracRound(p, f) == p + ((MulDiv4(p, f) + 5000) \div 10000)

\* the last n entries of a sequence (fewer when it is shorter)
Tail_n(s, n) == IF Len(s) <= n THEN s ELSE SubSeq(s, Len(s) - n + 1, Len(s))

\* remember the latest two triggered cycles
LogCycle(log, t) == Tail_n(Append(log, t), 2)

----------------------------------------------------------------------------
(* Venue calls shared by the script strategies (ScriptStrategyBase).       *)
(* A context c = [self, active_orders, calls, outcome] is threaded through *)
(* the methods of a handler in the order the handler calls them.           *)

Call(op, price, amount) == [op |-> op, price |-> price, amount |-> amount]

IsPlace(c) == c.op \in {"buy", "sell"}

cancel_all_orders_unconditional(c) ==
    [c EXCEPT !.calls = c.calls \o
                  [i \in 1..Max(1, Len(c.active_orders)) |-> Call("cancel", 0, 0)],
              !.active_orders = <<>>]

\* for order in self.get_active_orders(...): self.cancel(...)
cancel_all_orders(c) ==
    [c EXCEPT !.calls = c.calls \o
                  [i \in 1..Len(c.active_orders) |-> Call("cancel", 0, 0)],
              !.active_orders = <<>>]

\* self.buy / self.sell: the venue keeps an order of positive amount
place(c, op, price, amount) ==
    [c EXCEPT !.calls = Append(c.calls, Call(op, price, amount)),
              !.active_orders = IF amount > 0 THEN Append(c.active_orders, op)
                                ELSE c.active_orders]

Candidate(side, price, amount) == [side |-> side, price |-> price, amount |-> amount]

\* budget_checker.adjust_candidates(candidates, all_or_none=True): every
\* candidate comes back, with amount 0 when the balance does not cover it
adjust_candidates(candidates, budget) ==
    [i \in 1..Len(candidates) |->
        IF budget[i] THEN candidates[i]
        ELSE [candidates[i] EXCEPT !.amount = 0]]

BudgetOutcomes == {<<TRUE, TRUE>>, <<FALSE, TRUE>>, <<FALSE, FALSE>>}

RECURSIVE place_orders(_, _)
place_orders(c, orders) ==
    IF orders = <<>> THEN c
    ELSE LET o == Head(orders) IN
         place_orders(
            IF o.side = "BUY" THEN place(c, "buy", o.price, o.amount)
            ELSE IF o.side = "SELL" THEN place(c, "sell", o.price, o.amount)
            ELSE c,
            Tail(orders))

Start(c) == [c EXCEPT !.calls = <<>>]

Ctx == [self |-> self, active_orders |-> active_orders, calls |-> calls,
        outcome |-> outcome]

Commit(c) ==
    /\ self' = c.self
    /\ active_orders' = c.active_orders
    /\ calls' = c.calls
    /\ outcome' = c.outcome


----------------------------------------------------------------------------
(* CombinedPMMStrategy: hummingbot/strategy/combined_pmm/combined_pmm_strategy.py *)

Combined_order_amount == 1

Combined_order_refresh_time == 15

bid_spread_scalar == 120

ask_spread_scalar == 60

max_shift_spread == 10000

trend_scalar == -1

target_base_pct == 5000

inventory_scalar == 1

RatioOne == 100 * 100       \* 1.0 as an inventory ratio in 1e-4 units

\* the class attributes are read through self, so an instance may carry
\* its own configuration; the defaults are the values of the class
Combined_init ==
    [create_timestamp |-> 0,
     bid_spread_scalar |-> bid_spread_scalar,
     ask_spread_scalar |-> ask_spread_scalar,
     max_shift_spread |-> max_shift_spread,
     trend_scalar |-> trend_scalar,
     target_base_pct |-> target_base_pct,
     inventory_scalar |-> inventory_scalar,
     bid_spread |-> 0, ask_spread |-> 0,
     price_multiplier |-> 0, inventory_multiplier |-> 0,
     reference_price |-> 0, orig_price |-> 0,
     current_ratio |-> 5000, inventory_delta |-> 0]

\* tick_elapsed returns a flag and stores the next refresh time
tick_elapsed_always(s, current_time) ==
    [self |-> [s EXCEPT !.create_timestamp =
                            current_time + Combined_order_refresh_time],
     elapsed |-> TRUE]

tick_elapsed_since_creation(s, current_time) ==
    IF current_time >= s.create_timestamp + Combined_order_refresh_time
    THEN [self |-> [s EXCEPT !.create_timestamp =
                        current_time + Combined_order_refresh_time],
          elapsed |-> TRUE]
    ELSE [self |-> s, elapsed |-> FALSE]

tick_elapsed(s, current_time) ==
    LET s1 == IF s.create_timestamp = 0
              THEN [s EXCEPT !.create_timestamp = current_time]
              ELSE s
    IN  IF current_time >= s1.create_timestamp
        THEN [self |-> [s1 EXCEPT !.create_timestamp =
                            current_time + Combined_order_refresh_time],
              elapsed |-> TRUE]
        ELSE [self |-> s1, elapsed |-> FALSE]

Clamp(x, lo, hi) == IF x > hi THEN hi ELSE IF x < lo THEN lo ELSE x

Combined_price_multiplier_unbounded(s, latest_rsi) ==
    Clamp((latest_rsi - 50) * 1000000, 0 - (Frac \div 2), Frac \div 2)
        * s.trend_scalar

Combined_price_multiplier_inverted(s, latest_rsi) ==
    LET trend_offset == Clamp((50 - latest_rsi) * 1000000,
                              0 - (Frac \div 2), Frac \div 2)
    IN  Clamp(trend_offset * s.trend_scalar,
              0 - s.max_shift_spread, s.max_shift_spread)

\* lines 130-144: the trend shift of the reference price
Combined_price_multiplier(s, latest_rsi) ==
    LET trend_offset == Clamp((latest_rsi - 50) * 1000000,
                              0 - (Frac \div 2), Frac \div 2)
    IN  Clamp(trend_offset * s.trend_scalar,
              0 - s.max_shift_spread, s.max_shift_spread)

\* lines 152-157
Combined_current_ratio(base_value, total_value) ==
    IF total_value > 0 THEN (base_value * RatioOne) \div total_value
    ELSE 5000

Combined_inventory_delta_unclamped(s, current_ratio) ==
    IF s.target_base_pct > 0
    THEN ((s.target_base_pct - current_ratio) * RatioOne) \div s.target_base_pct
    ELSE 0

\* lines 159-168
Combined_inventory_delta(s, current_ratio) ==
    IF s.target_base_pct > 0
    THEN Clamp(((s.target_base_pct - current_ratio) * RatioOne)
                   \div s.target_base_pct,
               0 - RatioOne, RatioOne)
    ELSE 0

Combined_inventory_multiplier_unscaled(s, delta) ==
    MulDiv4(delta, s.max_shift_spread)

\* lines 170-175: both branches of the test multiply by max_shift_spread
Combined_inventory_multiplier(s, delta) ==
    MulDiv4(delta * s.inventory_scalar, s.max_shift_spread)

Combined_update_indicators_and_parameters(s, m) ==
    IF m.candles.state = "empty" THEN s
    ELSE IF m.candles.state = "short" THEN s
    ELSE
    LET latest_natr == m.candles.natr
        latest_rsi == m.candles.rsi
        price_multiplier == Combined_price_multiplier(s, latest_rsi)
        base_value == m.base_balance * m.mid_price
        total_value == base_value + m.quote_balance
        current_ratio == Combined_current_ratio(base_value, total_value)
        delta == Combined_inventory_delta(s, current_ratio)
        inventory_multiplier == Combined_inventory_multiplier(s, delta)
        orig_price == m.mid_price
    IN  [s EXCEPT !.bid_spread = latest_natr * s.bid_spread_scalar,
                  !.ask_spread = latest_natr * s.ask_spread_scalar,
                  !.price_multiplier = price_multiplier,
                  !.current_ratio = current_ratio,
                  !.inventory_delta = delta,
                  !.inventory_multiplier = inventory_multiplier,
                  !.orig_price = orig_price,
                  !.reference_price =
                      MulFrac(MulFrac(orig_price, price_multiplier),
                              inventory_multiplier)]

Combined_create_order_candidates_unclamped(s, m) ==
    << Candidate("BUY", MulFrac(s.reference_price, 0 - s.bid_spread),
                 Combined_order_amount),
       Candidate("SELL", MulFrac(s.reference_price, s.ask_spread),
                 Combined_order_amount) >>

Combined_create_order_candidates(s, m) ==
    LET buy_price0 == MulFrac(s.reference_price, 0 - s.bid_spread)
        sell_price0 == MulFrac(s.reference_price, s.ask_spread)
        buy_price == IF m.best_bid /= None THEN Min(buy_price0, m.best_bid)
                     ELSE buy_price0
        sell_price == IF m.best_ask /= None THEN Max(sell_price0, m.best_ask)
                      ELSE sell_price0
    IN  << Candidate("BUY", buy_price, Combined_order_amount),
           Candidate("SELL", sell_price, Combined_order_amount) >>

Combined_on_tick_place_first(c, current_time, m) ==
    IF ~m.ready THEN [c EXCEPT !.outcome = "not_ready"]
    ELSE
    LET te == tick_elapsed(c.self, current_time) IN
    IF te.elapsed
    THEN LET c1 == [c EXCEPT !.self =
                        Combined_update_indicators_and_parameters(te.self, m)]
             order_candidates == Combined_create_order_candidates(c1.self, m)
             adjusted_orders == adjust_candidates(order_candidates, m.budget)
             c2 == place_orders(c1, adjusted_orders)
             c3 == cancel_all_orders(c2)
         IN  [c3 EXCEPT !.outcome = "cycle"]
    ELSE [c EXCEPT !.self = te.self, !.outcome = "idle"]

Combined_on_tick(c, current_time, m) ==
    IF ~m.ready THEN [c EXCEPT !.outcome = "not_ready"]
    ELSE
    LET te == tick_elapsed(c.self, current_time) IN
    IF te.elapsed
    THEN LET c1 == cancel_all_orders([c EXCEPT !.self = te.self])
             c2 == [c1 EXCEPT !.self =
                        Combined_update_indicators_and_parameters(c1.self, m)]
             order_candidates == Combined_create_order_candidates(c2.self, m)
             adjusted_orders == adjust_candidates(order_candidates, m.budget)
             c3 == place_orders(c2, adjusted_orders)
         IN  [c3 EXCEPT !.outcome = "cycle"]
    ELSE [c EXCEPT !.self = te.self, !.outcome = "idle"]

\* what the collaborators can report to a CombinedPMMStrategy tick
CandleReadings(natrs, rsis) ==
    {[state |-> "empty", natr |-> 0, rsi |-> 0],
     [state |-> "short", natr |-> 0, rsi |-> 0]}
    \cup {[state |-> "ok", natr |-> n, rsi |-> r] : n \in natrs, r \in rsis}

NoCandles == [state |-> "unread", natr |-> 0, rsi |-> 0]

Unread == [ready |-> TRUE, candles |-> NoCandles, volatility |-> 0,
           base_balance |-> 0, quote_balance |-> 0, mid_price |-> 0,
           best_bid |-> None, best_ask |-> None,
           budget |-> <<TRUE, TRUE>>]

Combined_markets ==
    {[Unread EXCEPT !.ready = FALSE]} \cup
    {[Unread EXCEPT !.candles = cd, !.base_balance = bq[1],
                    !.quote_balance = bq[2], !.mid_price = 10000,
                    !.best_bid = bb, !.best_ask = ba, !.budget = bu] :
        cd \in CandleReadings({0, 150}, {30, 50, 70}),
        bq \in {<<0, 0>>, <<0, 100000>>, <<10, 0>>},
        bb \in {None, 9990}, ba \in {None, 10010},
        bu \in BudgetOutcomes}

\* a handler that returned before reading the market observed nothing
Observed(m, c) ==
    IF c.outcome = "not_ready" THEN [Unread EXCEPT !.ready = FALSE]
    ELSE IF c.outcome = "idle" THEN Unread
    ELSE m

Triggered(c) == c.outcome \notin {"not_ready", "idle"}

Tick(c, m, t) ==
    /\ now' = t
    /\ Commit(c)
    /\ market' = Observed(m, c)
    /\ cycle_log' = IF Triggered(c) THEN LogCycle(cycle_log, t) ELSE cycle_log
    /\ UNCHANGED <<strat, tasks>>

\* the readings worth offering to a tick: one that returns before it reads
\* the market observes the same thing whatever the market holds
Offered(markets, idle) ==
    IF idle THEN {m \in markets : ~m.ready} \cup {Unread} ELSE markets

CombinedPMMStrategy_tick ==
    /\ strat = "CombinedPMMStrategy"
    /\ \E dt \in TickSteps :
          /\ now + dt <= MaxTime
          /\ \E m \in Offered(Combined_markets,
                   ~tick_elapsed(self, now + dt).elapsed) :
                Tick(Combined_on_tick(Start(Ctx), now + dt, m), m, now + dt)

\* did_fill_order: the fill is logged and notified, nothing is stored
Combined_did_fill_order(c, trade_type) == [c EXCEPT !.outcome = "fill"]

\* a fill event of an order that keeps resting (a partial fill), delivered
\* between two ticks
CombinedPMMStrategy_did_fill_order ==
    /\ strat = "CombinedPMMStrategy"
    /\ \E i \in 1..Len(active_orders) :
          Commit(Combined_did_fill_order(Start(Ctx), active_orders[i]))
    /\ market' = Unread
    /\ UNCHANGED <<strat, now, cycle_log, tasks>>

----------------------------------------------------------------------------
(* EnhancedMarketMaker: scripts/enhanced_mm.py *)

EMM_ORDER_AMOUNT == 100

SPREAD_PERCENT == 200000

EMM_init == [rsi |-> 50, natr |-> 0, price_shift |-> 0, mid_price |-> 0]

\* 0.002 * (1 if rsi > 60 else -1 if rsi < 40 else 0), in 1e-8 units
rsi_shift(rsi) == 200000 * (IF rsi > 60 THEN 1 ELSE IF rsi < 40 THEN 0 - 1 ELSE 0)

\* the try block logs any exception and returns
EMM_fetch_indicators(s, m) ==
    IF m.candles.state = "raise" THEN s
    ELSE IF m.candles.state = "short" THEN s
    ELSE [s EXCEPT !.rsi = m.candles.rsi,
                   !.natr = m.candles.natr,
                   !.price_shift = rsi_shift(m.candles.rsi)]

\* spread * (1 + natr * 0.01), in 1e-8 units
spread_times_multiplier(spread, natr) == spread + ((spread * natr) \div 10000)

EMM_calculate_prices(s, mid_price) ==
    LET spread == spread_times_multiplier(SPREAD_PERCENT, s.natr)
        shifted_mid == MulFrac(mid_price, s.price_shift)
    IN  [bid |-> MulFracRound(shifted_mid, 0 - spread),
         ask |-> MulFracRound(shifted_mid, spread)]

EMM_place_orders(c, bid, ask) ==
    place(place(c, "buy", bid, EMM_ORDER_AMOUNT), "sell", ask, EMM_ORDER_AMOUNT)

EMM_on_tick(c, m) ==
    LET s1 == EMM_fetch_indicators(c.self, m)
        s2 == [s1 EXCEPT !.mid_price = m.mid_price]
        p == EMM_calculate_prices(s2, m.mid_price)
        c1 == cancel_all_orders([c EXCEPT !.self = s2])
        c2 == EMM_place_orders(c1, p.bid, p.ask)
    IN  [c2 EXCEPT !.outcome = "cycle"]

EMM_markets ==
    {[Unread EXCEPT !.candles = cd, !.mid_price = 10000] :
        cd \in {[state |-> "raise", natr |-> 0, rsi |-> 0],
                [state |-> "short", natr |-> 0, rsi |-> 0]}
               \cup {[state |-> "ok", natr |-> n, rsi |-> r] :
                        n \in {0, 150}, r \in {30, 50, 70}}}

EnhancedMarketMaker_tick ==
    /\ strat = "EnhancedMarketMaker"
    /\ \E dt \in TickSteps, m \in EMM_markets :
          /\ now + dt <= MaxTime
          /\ Tick(EMM_on_tick(Start(Ctx), m), m, now + dt)

----------------------------------------------------------------------------
(* EnhancedMM: scripts/enhanced_mm_final_fixed.py *)

EnhancedConfig_order_amount == 100

EnhancedConfig_spread == 200000

EnhancedConfig_interval == 15

EnhancedConfig_max_position_ratio == 2000

EnhancedConfig_volatility_threshold == 15

EnhancedMM_init ==
    [last_tick |-> 0, rsi |-> 50, natr |-> 0, shift |-> 0,
     bid_price |-> 0, ask_price |-> 0, mid_price |-> 0,
     base_balance |-> 0, quote_balance |-> 0]

\* get_candles fails, or too few candles make ta.rsi return None: the
\* exception leaves through on_tick's except clause
EnhancedMM_fetch_indicators(s, m) ==
    IF m.candles.state \in {"raise", "short"}
    THEN [self |-> s, raised |-> TRUE]
    ELSE [self |-> [s EXCEPT !.rsi = m.candles.rsi,
                             !.natr = m.candles.natr,
                             !.shift = rsi_shift(m.candles.rsi)],
          raised |-> FALSE]

EnhancedMM_fetch_inventory(s, m) ==
    [s EXCEPT !.base_balance = m.base_balance,
              !.quote_balance = m.quote_balance]

\* lines 63-84: the quote of a cycle that passed the circuit breaker
EnhancedMM_quote(s, mid_price) ==
    LET spread_sm == spread_times_multiplier(EnhancedConfig_spread, s.natr)
        shifted_mid == MulFrac(mid_price, s.shift)
        base_value == s.base_balance * mid_price
        \* base_value / (base_value + quote_balance + 1e-8), in 1e-4 units
        inventory_ratio ==
            IF base_value + s.quote_balance = 0 THEN 0
            ELSE (base_value * RatioOne) \div (base_value + s.quote_balance)
        inventory_asymmetry == RatioOne + ((5000 - inventory_ratio) * 2)
        bid_frac == MulDiv4(spread_sm, 2 * RatioOne - inventory_asymmetry)
        ask_frac == MulDiv4(spread_sm, inventory_asymmetry)
        position_value == base_value + s.quote_balance
        position_size ==
            Min(EnhancedConfig_order_amount,
                (MulDiv4(position_value, EnhancedConfig_max_position_ratio)
                    * 100) \div mid_price)
    IN  [bid_price |-> MulFrac(shifted_mid, 0 - bid_frac),
         ask_price |-> MulFrac(shifted_mid, ask_frac),
         position_size |-> position_size]

EnhancedMM_natr_gate_inclusive(natr) ==
    natr >= EnhancedConfig_volatility_threshold

EnhancedMM_natr_gate(natr) == natr > EnhancedConfig_volatility_threshold

EnhancedMM_on_tick(c, current_timestamp, m) ==
    IF current_timestamp < c.self.last_tick + EnhancedConfig_interval
    THEN [c EXCEPT !.outcome = "idle"]
    ELSE
    LET c1 == cancel_all_orders(c)
        fi == EnhancedMM_fetch_indicators(c1.self, m)
    IN
    IF fi.raised THEN [c1 EXCEPT !.outcome = "raise"]
    ELSE
    LET s2 == EnhancedMM_fetch_inventory(fi.self, m) IN
    IF EnhancedMM_natr_gate(s2.natr)
    THEN [c1 EXCEPT !.self = s2, !.outcome = "halt"]
    ELSE
    LET s3 == [s2 EXCEPT !.mid_price = m.mid_price]
        q == EnhancedMM_quote(s3, s3.mid_price)
        s4 == [s3 EXCEPT !.bid_price = q.bid_price, !.ask_price = q.ask_price]
        orders == adjust_candidates(
                     << Candidate("BUY", q.bid_price, q.position_size),
                        Candidate("SELL", q.ask_price, q.position_size) >>,
                     m.budget)
        c2 == place_orders([c1 EXCEPT !.self = s4], orders)
    IN  [c2 EXCEPT !.self.last_tick = current_timestamp, !.outcome = "cycle"]

EnhancedMM_markets ==
    {[Unread EXCEPT !.candles = cd, !.volatility = cd.natr,
                    !.base_balance = bq[1], !.quote_balance = bq[2],
                    !.mid_price = 10000, !.budget = bu] :
        cd \in {[state |-> "raise", natr |-> 0, rsi |-> 0],
                [state |-> "short", natr |-> 0, rsi |-> 0]}
               \cup {[state |-> "ok", natr |-> n, rsi |-> r] :
                        n \in {0, 15, 20}, r \in {30, 50}},
        bq \in {<<0, 0>>, <<0, 100000>>, <<10, 0>>},
        bu \in BudgetOutcomes}

\* last_tick starts at 0, so the first cycle waits for the clock to reach
\* the interval: this class is followed for two intervals
EnhancedMM_MaxTime == 31

EnhancedMM_tick ==
    /\ strat = "EnhancedMM"
    /\ \E dt \in TickSteps :
          /\ now + dt <= EnhancedMM_MaxTime
          /\ \E m \in Offered(EnhancedMM_markets,
                   now + dt < self.last_tick + EnhancedConfig_interval) :
                Tick(EnhancedMM_on_tick(Start(Ctx), now + dt, m), m, now + dt)

----------------------------------------------------------------------------
(* PMMShiftedMidPriceDynamicSpread: scripts/my_custom_pmm.py               *)
(* NATR readings of this class are fractions in 1e-8 units (scalar=0.5).   *)

PMM_spread_base == 800000

PMM_order_refresh_time == 15

PMM_order_amount == 700

PMM_init ==
    [create_timestamp |-> 0, mid_price |-> 0, reference_price |-> 0,
     spread_multiplier |-> RatioOne, price_multiplier |-> Frac,
     total_buy_orders |-> 0, total_sell_orders |-> 0,
     total_buy_volume |-> 0, total_sell_volume |-> 0]

PMM_update_multipliers(s, m) ==
    LET last_rsi == m.candles.rsi
        last_natr == m.candles.natr
        price_multiplier == ((50 - last_rsi) * last_natr) \div 50
    IN  [s EXCEPT !.price_multiplier = price_multiplier,
                  !.spread_multiplier =
                      last_natr \div (PMM_spread_base \div RatioOne),
                  !.mid_price = m.mid_price,
                  !.reference_price = MulFrac(m.mid_price, price_multiplier)]

PMM_create_proposal_inverted(s) ==
    LET spread_adjusted == MulDiv4(s.spread_multiplier, PMM_spread_base)
        buy_price == MulFrac(s.reference_price, spread_adjusted)
        sell_price == MulFrac(s.reference_price, 0 - spread_adjusted)
    IN  << Candidate("BUY", buy_price, PMM_order_amount),
           Candidate("SELL", sell_price, PMM_order_amount) >>

PMM_create_proposal(s) ==
    LET spread_adjusted == MulDiv4(s.spread_multiplier, PMM_spread_base)
        buy_price == MulFrac(s.reference_price, 0 - spread_adjusted)
        sell_price == MulFrac(s.reference_price, spread_adjusted)
    IN  << Candidate("BUY", buy_price, PMM_order_amount),
           Candidate("SELL", sell_price, PMM_order_amount) >>

PMM_gate(s, current_timestamp, m) ==
    s.create_timestamp <= current_timestamp /\ m.candles.state = "ok"

PMM_on_tick(c, current_timestamp, m) ==
    IF PMM_gate(c.self, current_timestamp, m)
    THEN LET c1 == cancel_all_orders(c)
             c2 == [c1 EXCEPT !.self = PMM_update_multipliers(c1.self, m)]
             proposal == PMM_create_proposal(c2.self)
             proposal_adjusted == adjust_candidates(proposal, m.budget)
             c3 == place_orders(c2, proposal_adjusted)
         IN  [c3 EXCEPT !.self.create_timestamp =
                            PMM_order_refresh_time + current_timestamp,
                        !.outcome = "cycle"]
    ELSE [c EXCEPT !.outcome = "idle"]

NotReadyCandles == [state |-> "not_ready", natr |-> 0, rsi |-> 0]

PMM_markets ==
    {[Unread EXCEPT !.candles = NotReadyCandles]} \cup
    {[Unread EXCEPT !.candles = [state |-> "ok", natr |-> n, rsi |-> r],
                    !.mid_price = 10000, !.budget = bu] :
        n \in {0, 500000}, r \in {30, 50, 70}, bu \in BudgetOutcomes}

PMMShiftedMidPriceDynamicSpread_tick ==
    /\ strat = "PMMShiftedMidPriceDynamicSpread"
    /\ \E dt \in TickSteps :
          /\ now + dt <= MaxTime
          /\ \E m \in IF self.create_timestamp <= now + dt THEN PMM_markets
                      ELSE {Unread} :
                LET c == PMM_on_tick(Start(Ctx), now + dt, m) IN
                /\ now' = now + dt
                /\ Commit(c)
                /\ market' = IF self.create_timestamp <= now + dt
                             THEN m ELSE Unread
                /\ cycle_log' = IF Triggered(c)
                                THEN LogCycle(cycle_log, now + dt)
                                ELSE cycle_log
                /\ UNCHANGED <<strat, tasks>>

MaxFills == 2

PMM_did_fill_order_swapped(c, trade_type, amount) ==
    IF trade_type = "buy"
    THEN [c EXCEPT !.self.total_sell_volume = @ + amount, !.outcome = "fill"]
    ELSE [c EXCEPT !.self.total_buy_volume = @ + amount, !.outcome = "fill"]

\* an OrderFilledEvent as far as the handlers read it
OrderFilledEvent(trade_type, amount) ==
    [trade_type |-> trade_type, amount |-> amount]

\* did_fill_order: the filled amount is added to the volume of its side
PMM_did_fill_order(c, trade_type, amount) ==
    IF trade_type = "buy"
    THEN [c EXCEPT !.self.total_buy_volume = @ + amount, !.outcome = "fill"]
    ELSE [c EXCEPT !.self.total_sell_volume = @ + amount, !.outcome = "fill"]

PMMShiftedMidPriceDynamicSpread_did_fill_order ==
    /\ strat = "PMMShiftedMidPriceDynamicSpread"
    /\ self.total_buy_volume + self.total_sell_volume
          < MaxFills * PMM_order_amount
    /\ \E i \in 1..Len(active_orders),
          amount \in {PMM_order_amount} :
          /\ Commit(PMM_did_fill_order(Start(Ctx), active_orders[i], amount))
          /\ market' = OrderFilledEvent(active_orders[i], amount)
    /\ UNCHANGED <<strat, now, cycle_log, tasks>>

----------------------------------------------------------------------------
(* EnhancedPMM: strategies/enhanced_pmm/enhanced_pmm.py *)

EnhancedPMM_spread_base == 800000

EnhancedPMM_order_refresh_time == 15

EnhancedPMM_order_amount == 700

EnhancedPMM_init ==
    [spread_multiplier |-> RatioOne, price_multiplier |-> Frac,
     mid_price |-> 0, reference_price |-> 0,
     total_buy_orders |-> 0, total_sell_orders |-> 0,
     total_buy_volume |-> 0, total_sell_volume |-> 0]

EnhancedPMM_update_multipliers(s, m) ==
    LET last_rsi == m.candles.rsi
        last_natr == m.candles.natr
        price_multiplier == ((50 - last_rsi) * last_natr) \div 50
    IN  [s EXCEPT !.price_multiplier = price_multiplier,
                  !.spread_multiplier =
                      last_natr \div (EnhancedPMM_spread_base \div RatioOne),
                  !.mid_price = m.mid_price,
                  !.reference_price = MulFrac(m.mid_price, price_multiplier)]

EnhancedPMM_execute_orders(c) ==
    LET spread_adjusted ==
            MulDiv4(c.self.spread_multiplier, EnhancedPMM_spread_base)
        bid_price == MulFracRound(c.self.reference_price, 0 - spread_adjusted)
        ask_price == MulFracRound(c.self.reference_price, spread_adjusted)
    IN  place(place(c, "buy", bid_price, EnhancedPMM_order_amount),
              "sell", ask_price, EnhancedPMM_order_amount)

EnhancedPMM_on_tick(c, m) ==
    IF m.candles.state = "ok"
    THEN LET c1 == cancel_all_orders(c)
             c2 == [c1 EXCEPT !.self =
                        EnhancedPMM_update_multipliers(c1.self, m)]
             c3 == EnhancedPMM_execute_orders(c2)
         IN  [c3 EXCEPT !.outcome = "cycle"]
    ELSE [c EXCEPT !.outcome = "idle"]

EnhancedPMM_markets ==
    {[Unread EXCEPT !.candles = NotReadyCandles]} \cup
    {[Unread EXCEPT !.candles = [state |-> "ok", natr |-> n, rsi |-> r],
                    !.mid_price = 10000] :
        n \in {0, 500000}, r \in {30, 50, 70}}

EnhancedPMM_tick ==
    /\ strat = "EnhancedPMM"
    /\ \E dt \in TickSteps, m \in EnhancedPMM_markets :
          /\ now + dt <= MaxTime
          /\ LET c == EnhancedPMM_on_tick(Start(Ctx), m) IN
             /\ now' = now + dt
             /\ Commit(c)
             /\ market' = m
             /\ cycle_log' = IF Triggered(c)
                             THEN LogCycle(cycle_log, now + dt)
                             ELSE cycle_log
             /\ UNCHANGED <<strat, tasks>>

\* lines 96-102: a BUY fill counts one buy order and adds its amount to the
\* buy volume, any other fill does the same on the sell side
EnhancedPMM_did_fill_order(c, event) ==
    IF event.trade_type = "buy"
    THEN [c EXCEPT !.self.total_buy_orders = @ + 1,
                   !.self.total_buy_volume = @ + event.amount,
                   !.outcome = "fill"]
    ELSE [c EXCEPT !.self.total_sell_orders = @ + 1,
                   !.self.total_sell_volume = @ + event.amount,
                   !.outcome = "fill"]

EnhancedPMM_fill ==
    /\ strat = "EnhancedPMM"
    /\ self.total_buy_orders + self.total_sell_orders < MaxFills
    /\ \E i \in 1..Len(active_orders),
          amount \in {EnhancedPMM_order_amount} :
          LET event == OrderFilledEvent(active_orders[i], amount) IN
          /\ Commit(EnhancedPMM_did_fill_order(Start(Ctx), event))
          /\ market' = event
    /\ UNCHANGED <<strat, now, cycle_log, tasks>>

----------------------------------------------------------------------------
(* AdvancedPMMStrategy (script strategy): strategies/advanced_pmm.py       *)
(* Fractions of this class are in 1e-4 units, trend_score in halves.       *)

AdvancedPMM_bid_spread == 80

AdvancedPMM_ask_spread == 80

AdvancedPMM_order_amount == 700

AdvancedPMM_emergency_stop_vol == 2000

AdvancedPMM_refresh == 15

AdvancedPMM_init ==
    [current_volatility |-> 0, trend_score |-> 1, inventory_asymmetry |-> RatioOne,
     create_timestamp |-> 0, mid_price |-> 0]

\* atr / self.mid_price divides by the mid price of the previous cycle,
\* Decimal("0") until a cycle has completed: the division raises
AdvancedPMM_update_analytics(s, m) ==
    IF s.mid_price = 0
    THEN [self |-> s, raised |-> TRUE]
    ELSE [self |-> [s EXCEPT !.current_volatility =
                                 (m.candles.atr * RatioOne) \div s.mid_price,
                             !.trend_score =
                                 IF m.candles.macd_hist > 0 THEN 2 ELSE 0 - 2,
                             !.mid_price = m.mid_price],
          raised |-> FALSE]

AdvancedPMM_calculate_spreads(s) ==
    LET vol_adj == RatioOne + s.current_volatility * 10
        trend_adj2 == 2 + Abs(s.trend_score)
    IN  [bid_spread |-> Min(1000, (AdvancedPMM_bid_spread * vol_adj * trend_adj2)
                                      \div (2 * RatioOne)),
         ask_spread |-> Min(1000, (AdvancedPMM_ask_spread * vol_adj * trend_adj2)
                                      \div (2 * RatioOne))]

AdvancedPMM_create_proposal(s) ==
    IF s.current_volatility > AdvancedPMM_emergency_stop_vol THEN <<>>
    ELSE LET sp == AdvancedPMM_calculate_spreads(s) IN
         << Candidate("BUY", MulDiv4(s.mid_price, RatioOne - sp.bid_spread),
                      AdvancedPMM_order_amount),
            Candidate("SELL", MulDiv4(s.mid_price, RatioOne + sp.ask_spread),
                      AdvancedPMM_order_amount) >>

AdvancedPMM_on_tick(c, current_timestamp, m) ==
    IF c.self.create_timestamp <= current_timestamp /\ m.candles.state = "ok"
    THEN LET c1 == cancel_all_orders(c)
             ua == AdvancedPMM_update_analytics(c1.self, m)
         IN
         IF ua.raised THEN [c1 EXCEPT !.outcome = "raise"]
         ELSE
         LET proposal == AdvancedPMM_create_proposal(ua.self)
             proposal_adjusted == adjust_candidates(proposal, m.budget)
             c2 == place_orders([c1 EXCEPT !.self = ua.self], proposal_adjusted)
         IN  [c2 EXCEPT !.self.create_timestamp =
                            AdvancedPMM_refresh + current_timestamp,
                        !.outcome = IF proposal = <<>> THEN "halt" ELSE "cycle"]
    ELSE [c EXCEPT !.outcome = "idle"]

AdvancedPMM_markets ==
    {[Unread EXCEPT !.candles = [state |-> "not_ready", atr |-> 0, macd_hist |-> 0]]}
    \cup
    {[Unread EXCEPT !.candles = [state |-> "ok", atr |-> a, macd_hist |-> h],
                    !.volatility = (a * RatioOne) \div mp,
                    !.mid_price = mp, !.budget = bu] :
        a \in {0, 2000, 2001}, h \in {0 - 1, 0, 1}, mp \in {10000},
        bu \in BudgetOutcomes}

AdvancedPMMStrategy_tick ==
    /\ strat = "AdvancedPMMStrategy"
    /\ \E dt \in TickSteps, m \in AdvancedPMM_markets :
          /\ now + dt <= MaxTime
          /\ LET c == AdvancedPMM_on_tick(Start(Ctx), now + dt, m) IN
             /\ now' = now + dt
             /\ Commit(c)
             /\ market' = IF c.outcome = "raise"
                          THEN [m EXCEPT !.budget = Unread.budget] ELSE m
             /\ cycle_log' = IF Triggered(c)
                             THEN LogCycle(cycle_log, now + dt)
                             ELSE cycle_log
             /\ UNCHANGED <<strat, tasks>>

----------------------------------------------------------------------------
(* PureMMAdvancedStrategy: hummingbot/strategy/pure_mm_advanced/pure_mm_advanced.py *)
(* Mid prices of this class are integers in 0.1 quote units.  Quote prices  *)
(* are kept multiplied by PureScale = 10 * 20, so that the mean and the     *)
(* standard deviation of twenty samples stay integers.                      *)

fast_ema_period == 5

slow_ema_period == 15

rsi_period == 14

bollinger_window == 20

cooldown_period == 300

PureScale == 10 * bollinger_window

\* time.time() at tick t: the wall clock runs with the tick clock
WallEpoch == 1000 * 1000

time_time(t) == WallEpoch + t

RECURSIVE SumSeq(_)
SumSeq(xs) == IF xs = <<>> THEN 0 ELSE Head(xs) + SumSeq(Tail(xs))

SumSq(xs) == SumSeq([i \in 1..Len(xs) |-> xs[i] * xs[i]])

\* floor of the square root, by bisection on [lo, hi]
RECURSIVE IsqrtIn(_, _, _)
IsqrtIn(x, lo, hi) ==
    IF lo >= hi THEN lo
    ELSE LET mid == (lo + hi + 1) \div 2 IN
         IF mid * mid <= x THEN IsqrtIn(x, mid, hi) ELSE IsqrtIn(x, lo, mid - 1)

Isqrt(x) == IsqrtIn(x, 0, 46340)

\* np.std(xs) * 10 * len(xs)
Std10n(xs) == Isqrt(100 * (Len(xs) * SumSq(xs) - SumSeq(xs) * SumSeq(xs)))

\* ema: period * mean of the last period prices, None when too few
Pure_ema(prices, period) ==
    IF Len(prices) < period THEN None
    ELSE SumSeq(Tail_n(prices, period))

\* rsi in 1e-2 points, None when too few prices
Pure_rsi(prices, period) ==
    IF Len(prices) < period + 1 THEN None
    ELSE LET w == Tail_n(prices, period + 1)
             deltas == [i \in 1..period |-> w[i + 1] - w[i]]
             ups == SumSeq([i \in 1..period |->
                               IF deltas[i] > 0 THEN deltas[i] ELSE 0])
             downs == SumSeq([i \in 1..period |->
                               IF deltas[i] < 0 THEN 0 - deltas[i] ELSE 0])
         IN  IF downs = 0 THEN 10000
             ELSE (10000 * ups) \div (ups + downs)

Pure_bollinger_bands_any_length(prices) ==
    << 10 * SumSeq(prices) + 2 * Std10n(prices),
       10 * SumSeq(prices) - 2 * Std10n(prices) >>

\* (sma + 2 std, sma - 2 std) times PureScale, (None, None) when too few
Pure_bollinger_bands(prices) ==
    IF Len(prices) < bollinger_window THEN <<None, None>>
    ELSE LET w == Tail_n(prices, bollinger_window)
         IN  << 10 * SumSeq(w) + 2 * Std10n(w), 10 * SumSeq(w) - 2 * Std10n(w) >>

\* the value of a float division by zero that pandas leaves in a series
NaN == 0 - 2

\* scripts/indicators.py TrendAnalyzer.rsi, last entry of the returned series,
\* in 1e-2 points.  prices.diff() has no value at the first price, which
\* where(..., 0) turns into a zero gain and a zero loss; the rolling means
\* have no value before window entries exist.  avg_gain / avg_loss is a float
\* division: x / 0 is inf for x > 0 (and 100 - 100 / inf is 100), 0 / 0 is NaN,
\* and NaN stays NaN through the remaining arithmetic.
TrendAnalyzer_rsi(prices, window) ==
    IF Len(prices) < window THEN NaN
    ELSE LET first == Len(prices) - window + 1
             delta == [i \in 1..window |->
                          IF first + i - 1 = 1 THEN 0
                          ELSE prices[first + i - 1] - prices[first + i - 2]]
             gain == SumSeq([i \in 1..window |->
                               IF delta[i] > 0 THEN delta[i] ELSE 0])
             loss == SumSeq([i \in 1..window |->
                               IF delta[i] < 0 THEN 0 - delta[i] ELSE 0])
         IN  IF loss = 0 THEN (IF gain = 0 THEN NaN ELSE 10000)
             ELSE 10000 - (10000 * loss) \div (gain + loss)

Pure_init(history) ==
    [last_stop_loss_time |-> 0, entry_price |-> None, price_history |-> history]

Truthy(x) == x /= None /\ x /= 0

Pure_quote_prices(prices, mid_price, m, upper_bb, lower_bb) ==
    LET volatility == (Std10n(prices) * bollinger_window) \div Len(prices)
        \* mid * dynamic_spread * PureScale, dynamic_spread = 0.002 + vol / mid
        spread_part == (2 * mid_price) \div 5 + volatility
        base_value == m.base_balance * mid_price
        total_value == base_value + m.quote_balance
        base_pct == IF total_value > 0
                    THEN (base_value * RatioOne) \div total_value ELSE 5000
        skew_sign == IF base_pct < 2000 THEN 0 - 1
                     ELSE IF base_pct > 8000 THEN 1 ELSE 0
        skew_part == skew_sign * (mid_price \div 5)
    IN  [bid_price |-> Max(lower_bb, PureScale * mid_price - spread_part + skew_part),
         ask_price |-> Min(upper_bb, PureScale * mid_price + spread_part + skew_part)]

Pure_record_price_untrimmed(price_history, mid_price) ==
    Append(price_history, mid_price)

\* lines 41-43: append, then pop(0) when longer than max(15, 14, 20)
Pure_record_price(price_history, mid_price) ==
    LET appended == Append(price_history, mid_price)
    IN  IF Len(appended) > Max(Max(slow_ema_period, rsi_period), 20)
        THEN Tail(appended) ELSE appended

Pure_cooling_down_never(s, t) == FALSE

\* line 59: time.time() - self.last_stop_loss_time < self.cooldown_period
Pure_cooling_down(s, t) ==
    time_time(t) - s.last_stop_loss_time < cooldown_period

Pure_on_tick(c, t, m) ==
    IF ~m.ready THEN [c EXCEPT !.outcome = "not_ready"]
    ELSE IF m.mid_price = None THEN [c EXCEPT !.outcome = "no_price"]
    ELSE
    LET mid_price == m.mid_price
        prices == Pure_record_price(c.self.price_history, mid_price)
        c0 == [c EXCEPT !.self.price_history = prices]
    IN
    IF Len(prices) < Max(slow_ema_period, rsi_period)
    THEN [c0 EXCEPT !.outcome = "warm_up"]
    ELSE IF /\ Truthy(c0.self.entry_price)
            /\ (mid_price - c0.self.entry_price) * 100 < 0 - 2 * c0.self.entry_price
    THEN LET c1 == cancel_all_orders(c0) IN
         [c1 EXCEPT !.self.last_stop_loss_time = time_time(t),
                    !.self.entry_price = None,
                    !.outcome = "stop_loss"]
    ELSE IF Pure_cooling_down(c0.self, t)
    THEN [c0 EXCEPT !.outcome = "cooldown"]
    ELSE
    LET fast_ema == Pure_ema(prices, fast_ema_period)
        slow_ema == Pure_ema(prices, slow_ema_period)
        rsi == Pure_rsi(prices, rsi_period)
        bb == Pure_bollinger_bands(prices)
        upper_bb == bb[1]
        lower_bb == bb[2]
    IN
    IF ~(Truthy(fast_ema) /\ Truthy(slow_ema) /\ Truthy(rsi)
            /\ Truthy(upper_bb) /\ Truthy(lower_bb))
    THEN [c0 EXCEPT !.outcome = "no_indicators"]
    ELSE
    LET c1 == cancel_all_orders(c0)
        q == Pure_quote_prices(prices, mid_price, m, upper_bb, lower_bb)
        bullish == fast_ema * slow_ema_period > slow_ema * fast_ema_period
                       /\ rsi < 7000
        bearish == fast_ema * slow_ema_period < slow_ema * fast_ema_period
                       /\ rsi > 3000
        bid == IF ~bullish /\ bearish THEN (q.bid_price * 99) \div 100
               ELSE q.bid_price
        ask == IF bullish THEN (q.ask_price * 101) \div 100 ELSE q.ask_price
        c2 == place(place(c1, "buy", bid, 1), "sell", ask, 1)
    IN  [c2 EXCEPT !.self.entry_price = mid_price, !.outcome = "cycle"]

\* ticks are taken while the clock is below Pure_MaxTicks seconds; a tick
\* comes one second after the previous one, or after a pause of about
\* cooldown_period seconds (the ticks of a pause find no mid price and change
\* nothing)
Pure_MaxTicks == 4

Pure_histories ==
    {[i \in 1..n |-> 1000] : n \in {0, 13, 18, 19}}

Pure_markets ==
    {[Unread EXCEPT !.ready = FALSE]} \cup
    {[Unread EXCEPT !.mid_price = mp, !.base_balance = bq[1],
                    !.quote_balance = bq[2]] :
        mp \in {None, 900, 1000, 1010},
        bq \in {<<0, 10000>>, <<10, 0>>, <<5, 5000>>}}

Pure_observed(m, c) ==
    IF c.outcome = "not_ready" THEN [Unread EXCEPT !.ready = FALSE]
    ELSE IF c.outcome = "cycle" THEN m
    ELSE [Unread EXCEPT !.mid_price = m.mid_price]

PureMMAdvancedStrategy_tick ==
    /\ strat = "PureMMAdvancedStrategy"
    /\ now < Pure_MaxTicks
    /\ \E m \in Pure_markets, gap \in {1, cooldown_period - 1, cooldown_period} :
          LET c == Pure_on_tick(Start(Ctx), now + gap, m) IN
          /\ now' = now + gap
          /\ Commit(c)
          /\ market' = Pure_observed(m, c)
          /\ cycle_log' = IF c.outcome = "cycle"
                          THEN LogCycle(cycle_log, now + gap) ELSE cycle_log
          /\ UNCHANGED <<strat, tasks>>

----------------------------------------------------------------------------
(* AdvancedPMMStrategy (PureMarketMakingStrategy subclass):                *)
(* scripts/advanced_pmm.py.  active_order_refresh is a coroutine; every    *)
(* listener call schedules one more run of it, and the runs interleave at  *)
(* their awaits.  Fractions are in 1e-4 units, trend_score in sixths.      *)

Script_bid_spread == 80

Script_ask_spread == 80

Script_order_amount == 700

Script_risk_threshold == 3000

Script_max_position_ratio == 2000

Script_emergency_stop_vol == 2000

MaxTasks == 2

Script_init ==
    [emergency_stop_vol |-> Script_emergency_stop_vol,
     current_volatility |-> 0, trend_score |-> 3,
     inventory_asymmetry |-> RatioOne, position_size |-> Script_order_amount]

\* safe_ensure_future(self.active_order_refresh())
spawn_refresh(ts) == Append(ts, "start")

Script_calculate_inventory_risk(s, m) ==
    LET base_value == m.base_balance * m.mid_price
        total_value == base_value + m.quote_balance
    IN  [inventory_deviation |->
             (Abs(base_value - m.quote_balance) * RatioOne) \div total_value,
         self |-> [s EXCEPT !.inventory_asymmetry =
                      RatioOne + (2 * (base_value - m.quote_balance) * RatioOne)
                                     \div total_value]]

\* line 209: 1 - min(1, self.current_volatility / 0.2)
Script_vol_factor(s) ==
    RatioOne - Min(RatioOne, (s.current_volatility * RatioOne) \div 2000)

Script_calculate_position_size(s, m) ==
    LET total_value == m.base_balance * m.mid_price + m.quote_balance
        vol_factor == Script_vol_factor(s)
        max_size == MulDiv4(MulDiv4(total_value, Script_max_position_ratio),
                            vol_factor) \div 100
    IN  Min(max_size, Script_order_amount)

Script_calculate_spreads_uncapped_risk(s, inventory_risk) ==
    LET vol_adj == RatioOne + s.current_volatility * 10
        trend_adj == RatioOne + (Abs(s.trend_score) * RatioOne) \div 12
        risk_adj == RatioOne - (inventory_risk * RatioOne)
                                    \div Script_risk_threshold
        factor == MulDiv4(MulDiv4(vol_adj, trend_adj), risk_adj)
        bid_spread == MulDiv4(MulDiv4(Script_bid_spread, factor),
                              2 * RatioOne - s.inventory_asymmetry)
        ask_spread == MulDiv4(MulDiv4(Script_ask_spread, factor),
                              s.inventory_asymmetry)
    IN  [bid_spread |-> Max(1, bid_spread), ask_spread |-> Max(1, ask_spread)]

Script_calculate_spreads_unfloored(s, inventory_risk) ==
    LET vol_adj == RatioOne + s.current_volatility * 10
        trend_adj == RatioOne + (Abs(s.trend_score) * RatioOne) \div 12
        risk_adj == RatioOne - (Min(inventory_risk, Script_risk_threshold)
                                    * RatioOne) \div Script_risk_threshold
        factor == MulDiv4(MulDiv4(vol_adj, trend_adj), risk_adj)
        bid_spread == MulDiv4(MulDiv4(Script_bid_spread, factor),
                              2 * RatioOne - s.inventory_asymmetry)
        ask_spread == MulDiv4(MulDiv4(Script_ask_spread, factor),
                              s.inventory_asymmetry)
    IN  [bid_spread |-> bid_spread, ask_spread |-> ask_spread]

Script_calculate_spreads(s, inventory_risk) ==
    LET vol_adj == RatioOne + s.current_volatility * 10
        trend_adj == RatioOne + (Abs(s.trend_score) * RatioOne) \div 12
        risk_adj == RatioOne - (Min(inventory_risk, Script_risk_threshold)
                                    * RatioOne) \div Script_risk_threshold
        factor == MulDiv4(MulDiv4(vol_adj, trend_adj), risk_adj)
        bid_spread == MulDiv4(MulDiv4(Script_bid_spread, factor),
                              2 * RatioOne - s.inventory_asymmetry)
        ask_spread == MulDiv4(MulDiv4(Script_ask_spread, factor),
                              s.inventory_asymmetry)
    IN  [bid_spread |-> Max(1, bid_spread), ask_spread |-> Max(1, ask_spread)]

\* place_order returns early for a non-positive price or amount; otherwise it
\* calls itself with keyword arguments it does not take, which raises
Script_place_order(price, amount) ==
    IF price <= 0 \/ amount <= 0 THEN "returned" ELSE "raised"

\* lines 173-197: the part of a run after its last await
Script_finish(c, m) ==
    IF m.base_balance * m.mid_price + m.quote_balance = 0
    THEN [c EXCEPT !.outcome = "raise"]
    ELSE
    LET ir == Script_calculate_inventory_risk(c.self, m)
        s1 == [ir.self EXCEPT !.position_size =
                                  Script_calculate_position_size(ir.self, m)]
        sp == Script_calculate_spreads(s1, ir.inventory_deviation)
        bid_price == MulDiv4(m.mid_price, RatioOne - sp.bid_spread)
        ask_price == MulDiv4(m.mid_price, RatioOne + sp.ask_spread)
        c1 == [c EXCEPT !.self = s1]
    IN  IF Script_place_order(bid_price, s1.position_size) = "raised"
        THEN [c1 EXCEPT !.outcome = "raise"]
        ELSE IF Script_place_order(ask_price, s1.position_size) = "raised"
        THEN [c1 EXCEPT !.outcome = "raise"]
        ELSE [c1 EXCEPT !.outcome = "cycle"]

Script_halted(s) == s.current_volatility > s.emergency_stop_vol

RemoveAt(ts, i) == SubSeq(ts, 1, i - 1) \o SubSeq(ts, i + 1, Len(ts))

Script_step(c, m) ==
    /\ Commit(c)
    /\ market' = m
    /\ UNCHANGED <<strat, now, cycle_log>>

\* _order_filled_listener
Script_order_filled_listener ==
    /\ strat = "AdvancedPMMScript"
    /\ Len(tasks) < MaxTasks
    /\ tasks' = spawn_refresh(tasks)
    /\ Script_step([Start(Ctx) EXCEPT !.outcome = "spawn"], Unread)

\* _order_book_diff_listener, when the event dispatcher runs the coroutine
Script_order_book_diff_listener ==
    /\ strat = "AdvancedPMMScript"
    /\ Len(tasks) < MaxTasks
    /\ tasks' = spawn_refresh(tasks)
    /\ Script_step([Start(Ctx) EXCEPT !.outcome = "spawn_diff"], Unread)

\* lines 161-168: a scheduled run starts, up to its await of cancel_all_orders
Script_refresh_begin ==
    /\ strat = "AdvancedPMMScript"
    /\ \E i \in 1..Len(tasks) :
          /\ tasks[i] = "start"
          /\ tasks' = [tasks EXCEPT ![i] =
                          IF Script_halted(self) THEN "halt_cancel_all_orders"
                          ELSE "cancel_all_orders"]
          /\ Script_step([cancel_all_orders(Start(Ctx)) EXCEPT
                              !.outcome = "await"], Unread)

\* line 165: the halted run returns
Script_refresh_halt ==
    /\ strat = "AdvancedPMMScript"
    /\ \E i \in 1..Len(tasks) :
          /\ tasks[i] = "halt_cancel_all_orders"
          /\ tasks' = RemoveAt(tasks, i)
          /\ \E v \in {0, 2000, 2500} :
                Script_step([Start(Ctx) EXCEPT !.outcome = "halt"],
                            [Unread EXCEPT !.volatility = v])

\* lines 171, 100: on to the await of get_candles in calculate_volatility
Script_refresh_fetch ==
    /\ strat = "AdvancedPMMScript"
    /\ \E i \in 1..Len(tasks) :
          /\ tasks[i] = "cancel_all_orders"
          /\ tasks' = [tasks EXCEPT ![i] = "calculate_volatility"]
          /\ Script_step([Start(Ctx) EXCEPT !.outcome = "await"], Unread)

\* lines 103-117, 121: the composite volatility of the candles received, or
\* an exception of the indicator library; then the await in analyze_trend
Script_refresh_volatility ==
    /\ strat = "AdvancedPMMScript"
    /\ \E i \in 1..Len(tasks) :
          /\ tasks[i] = "calculate_volatility"
          /\ \E cd \in {"raise", "ok"}, v \in {0, 2000, 2500} :
                IF cd = "raise"
                THEN /\ v = 0
                     /\ tasks' = RemoveAt(tasks, i)
                     /\ Script_step([Start(Ctx) EXCEPT !.outcome = "raise"],
                                    Unread)
                ELSE /\ tasks' = [tasks EXCEPT ![i] = "analyze_trend"]
                     /\ Script_step([Start(Ctx) EXCEPT
                                        !.self.current_volatility = v,
                                        !.outcome = "await"],
                                    [Unread EXCEPT !.volatility = v])

\* lines 124-139, 173-197: the trend score, then the rest of the run
Script_refresh_finish ==
    /\ strat = "AdvancedPMMScript"
    /\ \E i \in 1..Len(tasks) :
          /\ tasks[i] = "analyze_trend"
          /\ tasks' = RemoveAt(tasks, i)
          /\ \E signals \in {0 - 3, 0 - 1, 1, 3},
                bq \in {<<0, 0>>, <<0, 100000>>, <<10, 0>>, <<5, 50000>>},
                mp \in {5000, 10000} :
                LET m == [Unread EXCEPT !.volatility = self.current_volatility,
                                        !.base_balance = bq[1],
                                        !.quote_balance = bq[2],
                                        !.mid_price = mp]
                IN  Script_step(
                       Script_finish([Start(Ctx) EXCEPT
                                         !.self.trend_score = 2 * signals], m),
                       m)

----------------------------------------------------------------------------
(* InventoryManager: scripts/risk_manager.py.  Amounts and positions are   *)
(* whole base units; get_skew_factor is kept in 1e-4 units.                *)

InventoryManager_init(max_inventory) ==
    [max_inventory |-> max_inventory, current_position |-> 0]

FillEvent(trade_type, amount) == [trade_type |-> trade_type, amount |-> amount]

InventoryManager_update_position(s, fill_event) ==
    IF fill_event.trade_type = "BUY"
    THEN [s EXCEPT !.current_position = @ + fill_event.amount]
    ELSE [s EXCEPT !.current_position = @ - fill_event.amount]

InventoryManager_get_skew_factor(s) ==
    ((s.max_inventory - s.current_position) * RatioOne) \div s.max_inventory

InventoryManager_check_limits_absent(s, proposed_amount) == TRUE

InventoryManager_check_limits(s, proposed_amount) ==
    Abs(s.current_position + proposed_amount) <= s.max_inventory

\* the amount a caller proposes for a fill: positive for BUY, negative for
\* any other trade type
SignedAmount(fill_event) ==
    IF fill_event.trade_type = "BUY" THEN fill_event.amount
    ELSE 0 - fill_event.amount

FillEvents ==
    {FillEvent(t, a) : t \in {"BUY", "SELL", "RANGE"}, a \in {1, 2}}

\* a fill is applied when check_limits accepted its signed amount
InventoryManager_fill ==
    /\ strat = "InventoryManager"
    /\ \E fill_event \in FillEvents :
          /\ InventoryManager_check_limits(self, SignedAmount(fill_event))
          /\ self' = InventoryManager_update_position(self, fill_event)
          /\ market' = fill_event
    /\ outcome' = "update_position"
    /\ UNCHANGED <<strat, now, active_orders, calls, cycle_log, tasks>>

----------------------------------------------------------------------------
(* OrderBookAnalyzer: strategies/order_book_analyzer.py.  Amounts are whole *)
(* base units; the imbalance is kept in 1e-4 units.                         *)

OrderBookAnalyzer_init(depth_levels) == [depth_levels |-> depth_levels]

\* entries[:n]
Take(entries, n) == SubSeq(entries, 1, Min(n, Len(entries)))

OrderBookAnalyzer_get_liquidity_imbalance_full_depth(s, order_book) ==
    LET total_bid == SumSeq(order_book.bid_entries)
        total_ask == SumSeq(order_book.ask_entries)
    IN  IF total_bid + total_ask > 0
        THEN ((total_bid - total_ask) * RatioOne) \div (total_bid + total_ask)
        ELSE 0

OrderBookAnalyzer_get_liquidity_imbalance(s, order_book) ==
    LET bids == Take(order_book.bid_entries, s.depth_levels)
        asks == Take(order_book.ask_entries, s.depth_levels)
        total_bid == SumSeq(bids)
        total_ask == SumSeq(asks)
    IN  IF total_bid + total_ask > 0
        THEN ((total_bid - total_ask) * RatioOne) \div (total_bid + total_ask)
        ELSE 0

\* the amounts of one side of a book, best level first
BookSides ==
    UNION {[1..n -> {0, 1, 3}] : n \in 0..3}

\* one call on one book: the class keeps nothing between calls
OrderBookAnalyzer_read ==
    /\ strat = "OrderBookAnalyzer"
    /\ outcome = "init"
    /\ \E bid_entries \in BookSides, ask_entries \in BookSides :
          LET order_book == [bid_entries |-> bid_entries,
                             ask_entries |-> ask_entries]
          IN  market' = [order_book |-> order_book,
                         imbalance |->
                            OrderBookAnalyzer_get_liquidity_imbalance(self, order_book)]
    /\ outcome' = "get_liquidity_imbalance"
    /\ UNCHANGED <<strat, self, now, active_orders, calls, cycle_log, tasks>>

----------------------------------------------------------------------------

Strategies ==
    {"CombinedPMMStrategy", "EnhancedMarketMaker", "EnhancedMM",
     "PMMShiftedMidPriceDynamicSpread", "EnhancedPMM", "AdvancedPMMStrategy",
     "PureMMAdvancedStrategy", "AdvancedPMMScript", "InventoryManager",
     "OrderBookAnalyzer"}

init_self(cls) ==
    CASE cls = "CombinedPMMStrategy" -> {Combined_init}
      [] cls = "EnhancedMarketMaker" -> {EMM_init}
      [] cls = "EnhancedMM" -> {EnhancedMM_init}
      [] cls = "PMMShiftedMidPriceDynamicSpread" -> {PMM_init}
      [] cls = "EnhancedPMM" -> {EnhancedPMM_init}
      [] cls = "AdvancedPMMStrategy" -> {AdvancedPMM_init}
      [] cls = "PureMMAdvancedStrategy" ->
            {Pure_init(h) : h \in Pure_histories}
      [] cls = "AdvancedPMMScript" -> {Script_init}
      [] cls = "InventoryManager" ->
            {InventoryManager_init(max_inventory) : max_inventory \in {2, 3}}
      [] cls = "OrderBookAnalyzer" ->
            {OrderBookAnalyzer_init(depth_levels) : depth_levels \in {2, 5}}

Init ==
    /\ strat \in Strategies
    /\ self \in init_self(strat)
    /\ now = 0
    /\ active_orders = <<>>
    /\ calls = <<>>
    /\ outcome = "init"
    /\ market = Unread
    /\ cycle_log = <<>>
    /\ tasks = <<>>

Next ==
    \/ CombinedPMMStrategy_tick
    \/ CombinedPMMStrategy_did_fill_order
    \/ EnhancedMarketMaker_tick
    \/ EnhancedMM_tick
    \/ PMMShiftedMidPriceDynamicSpread_tick
    \/ PMMShiftedMidPriceDynamicSpread_did_fill_order
    \/ EnhancedPMM_tick
    \/ AdvancedPMMStrategy_tick
    \/ PureMMAdvancedStrategy_tick
    \/ Script_order_filled_listener
    \/ Script_order_book_diff_listener
    \/ Script_refresh_begin
    \/ Script_refresh_halt
    \/ Script_refresh_fetch
    \/ Script_refresh_volatility
    \/ Script_refresh_finish
    \/ EnhancedPMM_fill
    \/ InventoryManager_fill
    \/ OrderBookAnalyzer_read

Spec == Init /\ [][Next]_vars

----------------------------------------------------------------------------
(* CombinedPMMStrategy under configurations other than the class defaults:  *)
(* the first tick of an instance, for each configuration and each reading   *)
(* of the indicators and the balances.                                      *)

Configured_MaxTicks == 1

Combined_configs ==
    {[Combined_init EXCEPT !.trend_scalar = ts, !.inventory_scalar = is,
                           !.max_shift_spread = ms, !.target_base_pct = tb,
                           !.bid_spread_scalar = sc[1],
                           !.ask_spread_scalar = sc[2]] :
        ts \in {0 - 20, 0 - 1, 0, 1, 20},
        is \in {0, 1, 2},
        ms \in {0, 10000, 2000000},
        tb \in {2500, 5000, 8000},
        sc \in {<<0, 0>>, <<120, 60>>, <<60, 120>>}}

\* a quote balance of 1000 is 1000 * 10^6 in the unit of base_balance * mid_price
Configured_markets ==
    {[Unread EXCEPT !.candles = cd, !.base_balance = bq[1],
                    !.quote_balance = bq[2], !.mid_price = mp] :
        mp \in {10000, 20000},
        cd \in {[state |-> "empty", natr |-> 0, rsi |-> 0]}
               \cup {[state |-> "ok", natr |-> n, rsi |-> r] :
                        n \in {0, 150}, r \in {0, 49, 50, 70, 100}},
        bq \in {<<0, 0>>, <<0, 1000 * 1000000>>, <<10, 0>>, <<5, 50000>>}}

InitConfigured ==
    /\ strat = "CombinedPMMStrategy"
    /\ self \in Combined_configs
    /\ now = 0
    /\ active_orders = <<>>
    /\ calls = <<>>
    /\ outcome = "init"
    /\ market = Unread
    /\ cycle_log = <<>>
    /\ tasks = <<>>

CombinedPMMStrategy_configured_tick ==
    /\ strat = "CombinedPMMStrategy"
    /\ now < Configured_MaxTicks
    /\ \E m \in Offered(Configured_markets,
             ~tick_elapsed(self, now + 1).elapsed) :
          Tick(Combined_on_tick(Start(Ctx), now + 1, m), m, now + 1)

NextConfigured == CombinedPMMStrategy_configured_tick

SpecConfigured == InitConfigured /\ [][NextConfigured]_vars

----------------------------------------------------------------------------
(* scripts/advanced_pmm.py with emergency_stop_vol set to other values than *)
(* the class default of 0.2.                                                *)

Script_configs ==
    {[Script_init EXCEPT !.emergency_stop_vol = e] : e \in {2000, 4000}}

InitScriptConfigured ==
    /\ strat = "AdvancedPMMScript"
    /\ self \in Script_configs
    /\ now = 0
    /\ active_orders = <<>>
    /\ calls = <<>>
    /\ outcome = "init"
    /\ market = Unread
    /\ cycle_log = <<>>
    /\ tasks = <<>>

NextScriptConfigured ==
    \/ Script_order_filled_listener
    \/ Script_order_book_diff_listener
    \/ Script_refresh_begin
    \/ Script_refresh_halt
    \/ Script_refresh_fetch
    \/ Script_refresh_volatility
    \/ Script_refresh_finish

SpecScriptConfigured == InitScriptConfigured /\ [][NextScriptConfigured]_vars

----------------------------------------------------------------------------
(* Properties.  calls is the venue call log of the latest handler run, so  *)
(* a property of "a cycle" is a property of calls after a step.            *)

Indices(q) == 1..Len(q)

Cancels(q) == {i \in Indices(q) : q[i].op = "cancel"}

Places(q) == {i \in Indices(q) : IsPlace(q[i])}

\* the buy and sell calls that carry an amount
Orders(q) == {i \in Places(q) : q[i].amount > 0}

\* C1: in every triggered cycle, a cancellation is attempted for each order
\* resting when the cycle starts, and every cancellation comes before the
\* first buy or sell of the cycle; no cycle places and cancels afterwards.
C1_CancelBeforePlace ==
    [][Places(calls') /= {} =>
          /\ Cardinality(Cancels(calls')) = Len(active_orders)
          /\ \A i \in Cancels(calls'), j \in Places(calls') : i < j]_vars

C1_Witness ==
    /\ strat = "CombinedPMMStrategy"
    /\ Cancels(calls) /= {}
    /\ \E i \in Orders(calls), j \in Orders(calls) :
          calls[i].op = "buy" /\ calls[j].op = "sell"

\* C2: every cycle that emits a buy and a sell emits them with
\* bid_price <= ask_price; a crossed pair is never emitted.
C2_NoCross ==
    \A i \in Orders(calls), j \in Orders(calls) :
       (calls[i].op = "buy" /\ calls[j].op = "sell")
          => calls[i].price <= calls[j].price

\* C3: in a triggered cycle of EnhancedMM that measured its volatility, a
\* NATR strictly above volatility_threshold cancels the resting orders and
\* emits no order; a NATR equal to or below the threshold lets the cycle
\* proceed to the quote.
C3_VolatilityStop ==
    [][(strat = "EnhancedMM" /\ outcome' \in {"halt", "cycle"}) =>
          IF market'.volatility > EnhancedConfig_volatility_threshold
          THEN /\ outcome' = "halt"
               /\ Cardinality(Cancels(calls')) = Len(active_orders)
               /\ Places(calls') = {}
               /\ active_orders' = <<>>
          ELSE outcome' = "cycle"]_vars

C3_Witness ==
    /\ strat = "EnhancedMM"
    /\ outcome = "halt"
    /\ market.volatility > EnhancedConfig_volatility_threshold
    /\ Cancels(calls) /= {}

C3_WitnessAtThreshold ==
    /\ strat = "EnhancedMM"
    /\ outcome = "cycle"
    /\ market.volatility = EnhancedConfig_volatility_threshold
    /\ Orders(calls) /= {}

\* C4: a halt is not sticky: a cycle that runs while the market volatility
\* is not above the volatility stop does not end in a volatility halt.
C4_HaltNotSticky ==
    /\ (strat = "AdvancedPMMScript" /\ outcome = "halt")
          => market.volatility > Script_emergency_stop_vol
    /\ (strat = "EnhancedMM" /\ outcome = "halt")
          => market.volatility > EnhancedConfig_volatility_threshold

\* C5: a tick earlier than next_refresh_time (create_timestamp) cancels
\* nothing, places nothing, and leaves every stored field of the strategy
\* and the resting orders as they were.
C5_EarlyTickNoOp ==
    [][(strat \in {"CombinedPMMStrategy", "PMMShiftedMidPriceDynamicSpread"}
        /\ now' > now /\ now' < self.create_timestamp) =>
          /\ self' = self
          /\ active_orders' = active_orders
          /\ calls' = <<>>]_vars

C5_Witness ==
    /\ strat \in {"CombinedPMMStrategy", "PMMShiftedMidPriceDynamicSpread"}
    /\ outcome = "idle"
    /\ now < self.create_timestamp
    /\ active_orders /= <<>>

\* C6: two consecutive triggered cycles are at least the refresh interval
\* apart.
C6_MinimumGap ==
    /\ (strat = "CombinedPMMStrategy" /\ Len(cycle_log) = 2)
          => cycle_log[2] - cycle_log[1] >= Combined_order_refresh_time
    /\ (strat = "EnhancedPMM" /\ Len(cycle_log) = 2)
          => cycle_log[2] - cycle_log[1] >= EnhancedPMM_order_refresh_time

\* C7: a cycle that ends in a volatility halt at time now leaves
\* next_refresh_time = now + refresh_interval.
C7_HaltReschedules ==
    /\ (strat = "EnhancedMM" /\ outcome = "halt")
          => self.last_tick + EnhancedConfig_interval
                = now + EnhancedConfig_interval
    /\ (strat = "AdvancedPMMStrategy" /\ outcome = "halt")
          => self.create_timestamp = now + AdvancedPMM_refresh

\* a tick of a strategy that has never scheduled a refresh, received while
\* the strategy is ready to trade
FirstReadyTick ==
    /\ strat \in {"CombinedPMMStrategy", "PMMShiftedMidPriceDynamicSpread"}
    /\ self.create_timestamp = 0
    /\ now' > now
    /\ market'.ready

RefreshTime ==
    IF strat = "CombinedPMMStrategy" THEN Combined_order_refresh_time
    ELSE PMM_order_refresh_time

C9_NoOverlap ==
    Cardinality({i \in Indices(tasks) : tasks[i] /= "start"}) <= 1

\* C10: a triggered cycle whose candle window is empty places no buy or
\* sell order of any amount.
C10_NoQuoteWithoutCandles ==
    (strat = "CombinedPMMStrategy" /\ outcome = "cycle"
     /\ market.candles.state = "empty") => Orders(calls) = {}

\* C11: a triggered cycle that is skipped because the indicator data is
\* insufficient or the indicator computation fails still advances
\* next_refresh_time to now + refresh_interval.
C11_SkippedCycleAdvances ==
    /\ (strat = "CombinedPMMStrategy" /\ outcome = "cycle"
        /\ market.candles.state \in {"empty", "short"})
          => self.create_timestamp = now + Combined_order_refresh_time
    /\ (strat = "EnhancedMM" /\ outcome = "raise")
          => self.last_tick + EnhancedConfig_interval
                = now + EnhancedConfig_interval
    /\ (strat = "AdvancedPMMStrategy" /\ outcome = "raise")
          => self.create_timestamp = now + AdvancedPMM_refresh

\* C12: a cycle whose indicator or pricing computation raised places no
\* order; it does not go on with default or previous-cycle indicators.
C12_FailurePlacesNothing ==
    /\ (strat = "EnhancedMarketMaker" /\ market.candles.state = "raise")
          => Places(calls) = {}
    /\ (strat \in {"EnhancedMM", "AdvancedPMMScript"} /\ outcome = "raise")
          => Places(calls) = {}

\* C13: whenever a best bid is available the buy price of a
\* CombinedPMMStrategy cycle is <= best bid, and whenever a best ask is
\* available its sell price is >= best ask.
C13_MakerSafetyClamp ==
    (strat = "CombinedPMMStrategy" /\ outcome = "cycle") =>
       \A i \in Places(calls) :
          /\ (calls[i].op = "buy" /\ market.best_bid /= None)
                => calls[i].price <= market.best_bid
          /\ (calls[i].op = "sell" /\ market.best_ask /= None)
                => calls[i].price >= market.best_ask

C13_Witness ==
    /\ strat = "CombinedPMMStrategy"
    /\ outcome = "cycle"
    /\ market.best_bid /= None
    /\ market.best_ask /= None
    /\ MulFrac(self.reference_price, 0 - self.bid_spread) > market.best_bid
    /\ MulFrac(self.reference_price, self.ask_spread) < market.best_ask
    /\ \E i \in Orders(calls), j \in Orders(calls) :
          /\ calls[i].op = "buy" /\ calls[i].price = market.best_bid
          /\ calls[j].op = "sell" /\ calls[j].price = market.best_ask

\* C14: for every momentum in [0, 100] and every trend_scalar, the trend
\* price shift computed by a cycle satisfies |price_shift| <= max_price_shift.
C14_TrendShiftBounded ==
    (strat = "CombinedPMMStrategy" /\ outcome = "cycle")
       => Abs(self.price_multiplier) <= self.max_shift_spread

\* a cycle whose raw trend shift exceeds the limit, and one whose raw shift
\* is inside it and kept
C14_Witness ==
    /\ strat = "CombinedPMMStrategy"
    /\ outcome = "cycle"
    /\ market.candles.state = "ok"
    /\ market.candles.rsi = 100
    /\ self.trend_scalar = 0 - 20
    /\ self.max_shift_spread = 10000
    /\ self.price_multiplier = 0 - 10000

C14_WitnessInside ==
    /\ strat = "CombinedPMMStrategy"
    /\ outcome = "cycle"
    /\ market.candles.state = "ok"
    /\ market.candles.rsi = 49
    /\ self.trend_scalar = 1
    /\ self.max_shift_spread = 2000000
    /\ self.price_multiplier = 0 - 1000000

\* C15: for every inventory state and every inventory_scalar, the inventory
\* price shift computed by a cycle satisfies
\* |inventory_shift| <= max_price_shift.
C15_InventoryShiftBounded ==
    (strat = "CombinedPMMStrategy" /\ outcome = "cycle")
       => Abs(self.inventory_multiplier) <= self.max_shift_spread

\* C16: for every volatility >= 0 and spread scalars >= 0, the bid and ask
\* spreads used to price a quote are both >= the floor of 1e-4.
C16_SpreadFloor ==
    /\ (strat = "CombinedPMMStrategy" /\ outcome = "cycle"
        /\ market.candles.state = "ok")
          => (self.bid_spread >= 10000 /\ self.ask_spread >= 10000)
    /\ strat = "AdvancedPMMScript"
          => \A inventory_risk \in {0, 1500, Script_risk_threshold, RatioOne} :
                /\ Script_calculate_spreads(self, inventory_risk).bid_spread >= 1
                /\ Script_calculate_spreads(self, inventory_risk).ask_spread >= 1

C17_WitnessInside ==
    /\ strat = "CombinedPMMStrategy"
    /\ outcome = "cycle"
    /\ market.candles.state = "ok"
    /\ market.base_balance = 5 /\ market.quote_balance = 50000
    /\ self.target_base_pct = 8000
    /\ self.inventory_delta = 3750

\* C18: when both balances are zero (total_value = 0) the inventory
\* computation does not fail and is neutral: current_ratio = 0.5,
\* deviation = 0, and no inventory skew or asymmetry is applied to the quote
\* (the bid-side and ask-side factors are equal).
C18_ZeroBalancesNeutral ==
    /\ (strat = "CombinedPMMStrategy" /\ outcome = "cycle"
        /\ market.candles.state = "ok"
        /\ market.base_balance = 0 /\ market.quote_balance = 0)
          => /\ self.current_ratio = 5000
             /\ self.inventory_delta = 0
             /\ self.inventory_multiplier = 0
    /\ (strat = "EnhancedMM" /\ outcome = "cycle"
        /\ market.base_balance = 0 /\ market.quote_balance = 0)
          => LET shifted_mid == MulFrac(self.mid_price, self.shift)
             IN  Abs((shifted_mid - self.bid_price)
                        - (self.ask_price - shifted_mid)) <= 1

C20_ScenarioOne ==
    (strat = "CombinedPMMStrategy" /\ outcome = "cycle"
     /\ market.candles.state = "ok"
     /\ market.candles.rsi = 70 /\ market.candles.natr = 150
     /\ self.bid_spread_scalar = 120 /\ self.ask_spread_scalar = 60
     /\ self.trend_scalar = 0 - 1 /\ self.max_shift_spread = 10000)
       => /\ self.bid_spread = 18 * 10000
          /\ self.ask_spread = 9 * 10000
          /\ self.price_multiplier = 0 - 10000

\* C21: when no valid mid-price or no top-of-book (best bid or best ask is
\* None) is available at a triggered cycle, the cycle halts with no new order
\* emitted; it never quotes unclamped prices when a side of the book is
\* missing.
C21_NoLiquidityReferenceHalts ==
    /\ (strat = "CombinedPMMStrategy" /\ outcome = "cycle"
        /\ market.candles.state = "ok"
        /\ (market.best_bid = None \/ market.best_ask = None))
          => Orders(calls) = {}
    /\ (strat = "PureMMAdvancedStrategy" /\ outcome = "no_price")
          => Places(calls) = {}

\* C22: cancel_all_orders is idempotent: invoked when zero orders are
\* resting it issues no cancel request, raises no error and changes no
\* state; invoked with n resting orders it issues exactly one cancel per
\* resting order.
C22_CancelAllIdempotent ==
    [][(strat = "CombinedPMMStrategy" /\ outcome' = "cycle")
          => LET before == Start(Ctx)
                 once == cancel_all_orders(before)
                 twice == cancel_all_orders(Start(once))
             IN  /\ Cardinality(Cancels(calls')) = Len(active_orders)
                 /\ Len(once.calls) = Len(active_orders)
                 /\ \A i \in Indices(once.calls) : once.calls[i].op = "cancel"
                 /\ once.self = self
                 /\ active_orders = <<>> => once = before
                 /\ twice = Start(once)]_vars

\* a cycle that found two resting orders and cancelled both
C22_Witness ==
    /\ strat = "CombinedPMMStrategy"
    /\ outcome = "cycle"
    /\ Len(cycle_log) = 2
    /\ Cardinality(Cancels(calls)) = 2

\* a cycle that found nothing resting and issued no cancel
C22_WitnessNoneResting ==
    /\ strat = "CombinedPMMStrategy"
    /\ outcome = "cycle"
    /\ Len(cycle_log) = 1
    /\ Cancels(calls) = {}
    /\ Orders(calls) /= {}

\* C23: determinism of the pricing pipeline: two runs given the same candle
\* window, balances, mid-price and parameters produce identical volatility,
\* spreads, shifts and quote prices, whatever state earlier cycles left
\* behind.  Every cycle is compared with the run of a freshly constructed
\* strategy on the same readings.
C23_PipelineDeterministic ==
    (strat = "CombinedPMMStrategy" /\ outcome = "cycle")
       => LET fresh == Combined_update_indicators_and_parameters(
                           Combined_init, market)
              quote == Combined_create_order_candidates(fresh, market)
          IN  /\ self.bid_spread = fresh.bid_spread
              /\ self.ask_spread = fresh.ask_spread
              /\ self.price_multiplier = fresh.price_multiplier
              /\ self.inventory_multiplier = fresh.inventory_multiplier
              /\ self.reference_price = fresh.reference_price
              /\ \A i \in Places(calls) :
                    /\ calls[i].op = "buy" => calls[i].price = quote[1].price
                    /\ calls[i].op = "sell" => calls[i].price = quote[2].price

\* C24: the trend score is always one of -1, 0, +1 and equals the sign of
\* the fast-minus-slow average spread (or of the MACD histogram); when that
\* value is exactly zero the score is 0, not -1 or 'down'.
\* scripts/advanced_pmm.py keeps the score in sixths; strategies/advanced_pmm.py
\* in halves, and its update_analytics is evaluated on a zero histogram for
\* an instance whose stored mid-price is 1.0.
C24_TrendScoreIsSign ==
    /\ (strat = "AdvancedPMMScript" /\ market.mid_price > 0)
          => self.trend_score \in {0 - 6, 0, 6}
    /\ strat = "AdvancedPMMStrategy"
          => LET tie == [Unread EXCEPT
                            !.candles = [state |-> "ok", atr |-> 0,
                                         macd_hist |-> 0],
                            !.mid_price = 10000]
                 ua == AdvancedPMM_update_analytics(
                          [self EXCEPT !.mid_price = 10000], tie)
             IN  ua.self.trend_score = 0

\* C25: the momentum oscillator result is always in [0, 100] for every price
\* window with at least the required lookback; when the average loss over
\* the lookback is exactly zero (including a window with no price change at
\* all) the result is 100 and no division by zero or undefined value occurs.
\* Both implementations are evaluated on the price history of the strategy.
C25_MomentumRange ==
    (strat = "PureMMAdvancedStrategy"
     /\ Len(self.price_history) >= rsi_period + 1)
       => LET prices == self.price_history
              w == Tail_n(prices, rsi_period + 1)
              no_loss == \A i \in 1..rsi_period : w[i + 1] >= w[i]
          IN  /\ Pure_rsi(prices, rsi_period) \in 0..10000
              /\ TrendAnalyzer_rsi(prices, rsi_period) \in 0..10000
              /\ no_loss => /\ Pure_rsi(prices, rsi_period) = 10000
                            /\ TrendAnalyzer_rsi(prices, rsi_period) = 10000

\* C26: the size of both emitted orders equals
\* min(order_amount, position_value * max_position_ratio / mid_price) in
\* base-asset units; it is never negative and never exceeds the configured
\* order_amount, for all non-negative balances and positive mid-price.
\* max_position_ratio is 0.2 in both classes; sizes are in 1e-2 base units.
C26_PositionSize ==
    /\ (strat = "EnhancedMM" /\ outcome = "cycle")
          => LET position_value == market.base_balance * market.mid_price
                                      + market.quote_balance
                 size == Min(EnhancedConfig_order_amount,
                             ((position_value \div 5) * 100)
                                 \div market.mid_price)
             IN  /\ \A i \in Orders(calls) : calls[i].amount = size
                 /\ \A i \in Places(calls) :
                       /\ calls[i].amount >= 0
                       /\ calls[i].amount <= EnhancedConfig_order_amount
    /\ (strat = "AdvancedPMMScript" /\ market.mid_price > 0
        /\ market.base_balance * market.mid_price + market.quote_balance > 0
        /\ self.current_volatility = 0)
          => LET position_value == market.base_balance * market.mid_price
                                      + market.quote_balance
             IN  self.position_size
                    = Min(Script_order_amount,
                          ((position_value \div 5) * 100)
                              \div market.mid_price)

\* C27: the volatility-dampening factor applied to order size equals
\* max(0, 1 - volatility / volatility_stop) with the configured volatility
\* stop: it lies in [0, 1], is non-increasing in volatility, and reaches 0
\* exactly when volatility reaches the configured halt threshold (for every
\* configured threshold, not only 0.2).
C27_VolatilityDampening ==
    strat = "AdvancedPMMScript"
       => LET stop == self.emergency_stop_vol
              stated(v) == Max(0, RatioOne - (v * RatioOne) \div stop)
              factor(v) ==
                  Script_vol_factor([self EXCEPT !.current_volatility = v])
              levels == {0, 1000, 2000, 2500, 4000, 5000}
          IN  /\ Script_vol_factor(self) = stated(self.current_volatility)
              /\ Script_vol_factor(self) \in 0..RatioOne
              /\ \A v1 \in levels, v2 \in levels :
                    v1 <= v2 => factor(v1) >= factor(v2)
              /\ \A v \in levels : factor(v) = 0 <=> v >= stop

\* C28: for every inventory state, the bid-side spread multiplier is
\* (2 - asymmetry) and the ask-side multiplier is asymmetry, each floored at
\* zero: neither effective spread is ever negative, so the bid is never
\* priced above and the ask never below the (shifted) reference price
\* because of inventory skew.
C28_SkewNeverNegative ==
    /\ (strat = "EnhancedMM" /\ outcome = "cycle")
          => LET shifted_mid == MulFrac(self.mid_price, self.shift)
                 base_value == market.base_balance * market.mid_price
                 total == base_value + market.quote_balance
                 ratio == IF total = 0 THEN 0
                          ELSE (base_value * RatioOne) \div total
                 asymmetry == RatioOne + 2 * (5000 - ratio)
             IN  /\ asymmetry >= 0
                 /\ 2 * RatioOne - asymmetry >= 0
                 /\ self.bid_price <= shifted_mid
                 /\ shifted_mid <= self.ask_price
    /\ (strat = "AdvancedPMMScript" /\ market.mid_price > 0)
          => \A inventory_risk \in {0, 1500, Script_risk_threshold, RatioOne} :
                LET sp == Script_calculate_spreads(self, inventory_risk)
                    mid_price == market.mid_price
                IN  /\ sp.bid_spread >= 0
                    /\ sp.ask_spread >= 0
                    /\ MulDiv4(mid_price, RatioOne - sp.bid_spread) <= mid_price
                    /\ MulDiv4(mid_price, RatioOne + sp.ask_spread) >= mid_price

\* an all-quote inventory in scripts/advanced_pmm.py: asymmetry is -1, the
\* ask-side product is negative and the ask spread is held at the floor
C28_Witness ==
    /\ strat = "AdvancedPMMScript"
    /\ market.mid_price > 0
    /\ market.base_balance = 0 /\ market.quote_balance > 0
    /\ self.inventory_asymmetry = 0 - RatioOne
    /\ Script_calculate_spreads(self, 0).ask_spread = 1
    /\ Script_calculate_spreads(self, 0).bid_spread > 1

\* an all-base inventory in EnhancedMM: the ask-side factor is 0 and the ask
\* rests on the shifted mid, the bid is two spreads below it
C28_WitnessEnhancedMM ==
    /\ strat = "EnhancedMM"
    /\ outcome = "cycle"
    /\ market.base_balance > 0 /\ market.quote_balance = 0
    /\ self.ask_price = MulFrac(self.mid_price, self.shift)
    /\ self.bid_price < self.ask_price

C29_WitnessShiftedMid ==
    /\ strat = "PMMShiftedMidPriceDynamicSpread"
    /\ outcome = "cycle"
    /\ self.reference_price /= market.mid_price
    /\ \E i \in Orders(calls), j \in Orders(calls) :
          /\ calls[i].op = "buy" /\ calls[i].price < self.reference_price
          /\ calls[j].op = "sell" /\ calls[j].price > self.reference_price

\* C30: the scheduling state (next_refresh_time) and the stored quote
\* parameters are mutated only by the tick handler: a fill event, arriving
\* at any point between or during ticks, changes at most the cumulative fill
\* bookkeeping and never starts a cycle, cancels or places orders, or alters
\* next_refresh_time.  A step of a fill handler ends in outcome "fill", or
\* "spawn" in scripts/advanced_pmm.py.
C30_FillFrame ==
    [][outcome' \in {"fill", "spawn"}
          => /\ tasks' = tasks
             /\ calls' = <<>>
             /\ active_orders' = active_orders
             /\ cycle_log' = cycle_log
             /\ now' = now
             /\ strat = "PMMShiftedMidPriceDynamicSpread"
                   => [self' EXCEPT !.total_buy_volume = 0,
                                    !.total_sell_volume = 0]
                         = [self EXCEPT !.total_buy_volume = 0,
                                        !.total_sell_volume = 0]
             /\ strat /= "PMMShiftedMidPriceDynamicSpread"
                   => self' = self]_vars

\* C31: InventoryManager.get_skew_factor returns a value in [-1, 1]
\* (-1 = maximum sell bias, 1 = maximum buy bias) after any sequence of
\* update_position calls that keeps |current_position| <= max_inventory.
C31_SkewFactorRange ==
    (strat = "InventoryManager"
     /\ Abs(self.current_position) <= self.max_inventory)
       => /\ InventoryManager_get_skew_factor(self) >= 0 - RatioOne
          /\ InventoryManager_get_skew_factor(self) <= RatioOne

\* C32: trend sign convention: with a negative trend_scalar (contrarian)
\* every momentum above 50 yields price_shift <= 0 and every momentum below
\* 50 yields price_shift >= 0; with a positive trend_scalar the signs are
\* reversed; momentum exactly 50 yields price_shift = 0.
C32_TrendSignConvention ==
    (strat = "CombinedPMMStrategy" /\ outcome = "cycle"
     /\ market.candles.state = "ok")
       => LET momentum == market.candles.rsi
              price_shift == self.price_multiplier
          IN  /\ (self.trend_scalar < 0 /\ momentum > 50) => price_shift <= 0
              /\ (self.trend_scalar < 0 /\ momentum < 50) => price_shift >= 0
              /\ (self.trend_scalar > 0 /\ momentum > 50) => price_shift >= 0
              /\ (self.trend_scalar > 0 /\ momentum < 50) => price_shift <= 0
              /\ momentum = 50 => price_shift = 0

\* a contrarian cycle above 50 with a strictly negative shift
C32_Witness ==
    /\ strat = "CombinedPMMStrategy"
    /\ outcome = "cycle"
    /\ market.candles.state = "ok"
    /\ market.candles.rsi = 70
    /\ self.trend_scalar = 0 - 1
    /\ self.price_multiplier < 0

\* a momentum-following cycle above 50 with a strictly positive shift, and a
\* cycle at exactly 50
C32_WitnessFollowing ==
    /\ strat = "CombinedPMMStrategy"
    /\ outcome = "cycle"
    /\ market.candles.state = "ok"
    /\ market.candles.rsi = 70
    /\ self.trend_scalar = 20
    /\ self.price_multiplier > 0

C32_WitnessNeutral ==
    /\ strat = "CombinedPMMStrategy"
    /\ outcome = "cycle"
    /\ market.candles.state = "ok"
    /\ market.candles.rsi = 50
    /\ self.trend_scalar = 20 /\ self.max_shift_spread > 0
    /\ self.price_multiplier = 0

\* C33: warm-up: while price_history is shorter than the longest lookback in
\* use (EMA 15, RSI 14 + 1, Bollinger 20), on_tick places no order and cancels
\* nothing; an order is only placed on a tick at which the history holds at
\* least 20 samples.
C33_WarmUp ==
    strat = "PureMMAdvancedStrategy"
       => /\ Len(self.price_history) < bollinger_window
                => (calls = <<>> /\ active_orders = <<>>
                      /\ outcome /= "cycle" /\ self.entry_price = None)
          /\ Places(calls) /= {}
                => Len(self.price_history) >= bollinger_window

\* a tick past the 15-sample gate but short of 20 samples that did nothing
C33_Witness ==
    /\ strat = "PureMMAdvancedStrategy"
    /\ outcome = "no_indicators"
    /\ Len(self.price_history) >= Max(slow_ema_period, rsi_period)
    /\ Len(self.price_history) < bollinger_window
    /\ calls = <<>>

\* the first quoting cycle, on the tick that brought the twentieth sample
C33_WitnessFirstOrder ==
    /\ strat = "PureMMAdvancedStrategy"
    /\ outcome = "cycle"
    /\ Len(self.price_history) = bollinger_window
    /\ cycle_log = <<now>>
    /\ Places(calls) /= {}

\* C34: stop-loss cooldown: when the mid price falls more than
\* stop_loss_threshold below entry_price, that tick cancels all orders, places
\* none and resets entry_price to None; afterwards no order is placed on a
\* tick earlier than cooldown_period seconds after the trigger, and quoting
\* resumes on the first tick after the cooldown that has a mid price and all
\* five indicators.
C34_StopLossCooldown ==
    [][strat = "PureMMAdvancedStrategy" =>
         LET mid_price == market'.mid_price
             priced == market'.ready /\ mid_price /= None
             triggered == /\ priced
                          /\ Truthy(self.entry_price)
                          /\ (mid_price - self.entry_price) * 100
                                 < 0 - 2 * self.entry_price
             prices == self'.price_history
             bb == Pure_bollinger_bands(prices)
             qualifying == /\ priced
                           /\ Truthy(Pure_ema(prices, fast_ema_period))
                           /\ Truthy(Pure_ema(prices, slow_ema_period))
                           /\ Truthy(Pure_rsi(prices, rsi_period))
                           /\ Truthy(bb[1]) /\ Truthy(bb[2])
         IN  /\ triggered
                   => /\ outcome' = "stop_loss"
                      /\ Cardinality(Cancels(calls')) = Len(active_orders)
                      /\ Places(calls') = {}
                      /\ active_orders' = <<>>
                      /\ self'.entry_price = None
                      /\ self'.last_stop_loss_time = time_time(now')
             /\ Places(calls') /= {}
                   => time_time(now') - self.last_stop_loss_time >= cooldown_period
             /\ (/\ qualifying
                 /\ ~triggered
                 /\ time_time(now') - self.last_stop_loss_time >= cooldown_period)
                   => (outcome' = "cycle" /\ Orders(calls') /= {})
    ]_vars

\* quoting resumed exactly cooldown_period seconds after a stop-loss
C34_Witness ==
    /\ strat = "PureMMAdvancedStrategy"
    /\ outcome = "cycle"
    /\ self.last_stop_loss_time > 0
    /\ time_time(now) - self.last_stop_loss_time = cooldown_period
    /\ Orders(calls) /= {}

\* the stop-loss tick itself, cancelling the two resting orders
C34_WitnessStopLoss ==
    /\ strat = "PureMMAdvancedStrategy"
    /\ outcome = "stop_loss"
    /\ Cardinality(Cancels(calls)) = 2
    /\ self.entry_price = None
    /\ self.last_stop_loss_time = time_time(now)

\* a priced tick one second before the cooldown ends, which stays silent
C34_WitnessCoolingDown ==
    /\ strat = "PureMMAdvancedStrategy"
    /\ outcome = "cooldown"
    /\ market.mid_price = 1000
    /\ time_time(now) - self.last_stop_loss_time = cooldown_period - 1
    /\ calls = <<>>

\* C35: after any sequence of ticks price_history holds at most 20 samples,
\* the retained samples are the most recent ones in arrival order, and a tick
\* with no mid price leaves price_history unchanged.
C35_HistoryWindow ==
    [][strat = "PureMMAdvancedStrategy" =>
         LET arrived == Append(self.price_history, market'.mid_price)
             first == Max(1, Len(arrived) - 19)
         IN  /\ Len(self'.price_history) <= 20
             /\ (market'.ready /\ market'.mid_price /= None)
                   => self'.price_history = SubSeq(arrived, first, Len(arrived))
             /\ (market'.ready /\ market'.mid_price = None)
                   => self'.price_history = self.price_history
    ]_vars

\* a full window whose oldest sample was dropped: three samples arrived on
\* top of at least 18
C35_Witness ==
    /\ strat = "PureMMAdvancedStrategy"
    /\ Len(self.price_history) = 20
    /\ self.price_history[18] = 1010
    /\ self.price_history[19] = 900
    /\ self.price_history[20] = 1000

\* a tick without a mid price on a full window
C35_WitnessNoPrice ==
    /\ strat = "PureMMAdvancedStrategy"
    /\ outcome = "no_price"
    /\ Len(self.price_history) = 20
    /\ self.price_history[20] = 1010

\* C36: InventoryManager position limit: starting from position 0, when every
\* fill is applied with update_position only after check_limits accepted its
\* signed amount, |current_position| <= max_inventory in every reachable
\* state; a BUY fill raises the position by exactly the fill amount and any
\* other trade type lowers it by exactly that amount.
C36_PositionLimit ==
    [][strat = "InventoryManager" =>
         /\ Abs(self'.current_position) <= self'.max_inventory
         /\ self'.max_inventory = self.max_inventory
         /\ market'.trade_type = "BUY"
               => self'.current_position = self.current_position + market'.amount
         /\ market'.trade_type /= "BUY"
               => self'.current_position = self.current_position - market'.amount
    ]_vars

\* a fill of a trade type other than BUY and SELL that brought the position
\* to the lower limit
C36_Witness ==
    /\ strat = "InventoryManager"
    /\ outcome = "update_position"
    /\ market.trade_type = "RANGE"
    /\ self.current_position = 0 - self.max_inventory

\* a BUY fill that brought the position to the upper limit
C36_WitnessBuy ==
    /\ strat = "InventoryManager"
    /\ outcome = "update_position"
    /\ market.trade_type = "BUY"
    /\ market.amount = 2
    /\ self.current_position = self.max_inventory

\* C37: cumulative fill bookkeeping is monotone: total_buy_volume and
\* total_sell_volume never decrease; a BUY fill increases total_buy_volume by
\* exactly the fill amount and leaves total_sell_volume unchanged, and a SELL
\* fill does the converse.
C37_FillBookkeeping ==
    [][(strat = "PMMShiftedMidPriceDynamicSpread" \/ strat = "EnhancedPMM") =>
         /\ self'.total_buy_volume >= self.total_buy_volume
         /\ self'.total_sell_volume >= self.total_sell_volume
         /\ (outcome' = "fill" /\ market'.trade_type = "buy")
               => /\ self'.total_buy_volume
                        = self.total_buy_volume + market'.amount
                  /\ self'.total_sell_volume = self.total_sell_volume
         /\ (outcome' = "fill" /\ market'.trade_type = "sell")
               => /\ self'.total_sell_volume
                        = self.total_sell_volume + market'.amount
                  /\ self'.total_buy_volume = self.total_buy_volume
    ]_vars

\* my_custom_pmm.py after a buy fill and a sell fill
C37_Witness ==
    /\ strat = "PMMShiftedMidPriceDynamicSpread"
    /\ outcome = "fill"
    /\ market.trade_type = "sell"
    /\ self.total_buy_volume = PMM_order_amount
    /\ self.total_sell_volume = PMM_order_amount

\* strategies/enhanced_pmm after a buy fill and a sell fill
C37_WitnessEnhancedPMM ==
    /\ strat = "EnhancedPMM"
    /\ outcome = "fill"
    /\ market.trade_type = "buy"
    /\ self.total_buy_orders = 1 /\ self.total_sell_orders = 1
    /\ self.total_buy_volume = EnhancedPMM_order_amount
    /\ self.total_sell_volume = EnhancedPMM_order_amount

\* C38: each triggered cycle issues at most one BUY placement and at most one
\* SELL placement, never two on the same side, and with the all-or-none
\* budget adjustment an order whose adjusted amount is zero is not turned
\* into a placement.
C38_OnePlacementPerSide ==
    (strat = "CombinedPMMStrategy" /\ outcome = "cycle"
     /\ market.candles.state = "ok")
       => /\ Cardinality({i \in Places(calls) : calls[i].op = "buy"}) <= 1
          /\ Cardinality({i \in Places(calls) : calls[i].op = "sell"}) <= 1
          /\ \A i \in Places(calls) : calls[i].amount > 0

\* C39: in calculate_spreads of scripts/advanced_pmm.py, when inventory_risk
\* >= risk_threshold the risk adjustment is 0 and both returned spreads equal
\* the 0.0001 floor regardless of volatility and trend; below the threshold
\* each returned spread is
\* max(0.0001, base_spread * vol_adj * trend_adj * risk_adj * side_factor).
C39_RiskAdjustedSpreads ==
    (strat = "AdvancedPMMScript" /\ market.mid_price > 0
     /\ market.base_balance * market.mid_price + market.quote_balance > 0)
       => \A inventory_risk \in
                {0, 1500, Script_risk_threshold - 1, Script_risk_threshold,
                 RatioOne,
                 Script_calculate_inventory_risk(self, market).inventory_deviation} :
             LET sp == Script_calculate_spreads(self, inventory_risk)
                 vol_adj == RatioOne + (self.current_volatility * RatioOne) \div 1000
                 trend_adj == RatioOne + (Abs(self.trend_score) * RatioOne) \div 12
                 risk_adj == RatioOne - (inventory_risk * RatioOne)
                                            \div Script_risk_threshold
                 all_adj == MulDiv4(MulDiv4(vol_adj, trend_adj), risk_adj)
                 bid == MulDiv4(MulDiv4(Script_bid_spread, all_adj),
                                2 * RatioOne - self.inventory_asymmetry)
                 ask == MulDiv4(MulDiv4(Script_ask_spread, all_adj),
                                self.inventory_asymmetry)
             IN  IF inventory_risk >= Script_risk_threshold
                 THEN sp.bid_spread = 1 /\ sp.ask_spread = 1
                 ELSE /\ sp.bid_spread = Max(1, bid)
                      /\ sp.ask_spread = Max(1, ask)

\* a finished run with a one-sided inventory (risk 1.0 >= 0.3), positive
\* volatility and a full trend score: both spreads sit at the floor
C39_Witness ==
    /\ strat = "AdvancedPMMScript"
    /\ market.mid_price > 0
    /\ market.base_balance = 0 /\ market.quote_balance > 0
    /\ Script_calculate_inventory_risk(self, market).inventory_deviation
          >= Script_risk_threshold
    /\ self.current_volatility > 0
    /\ Abs(self.trend_score) = 6
    /\ Script_calculate_spreads(self, RatioOne).bid_spread = 1
    /\ Script_calculate_spreads(self, RatioOne).ask_spread = 1

\* a finished run with a balanced inventory (risk 0): both spreads are the
\* widened base spread, above the floor
C39_WitnessBelowThreshold ==
    /\ strat = "AdvancedPMMScript"
    /\ market.mid_price > 0
    /\ market.base_balance > 0 /\ market.quote_balance > 0
    /\ Script_calculate_inventory_risk(self, market).inventory_deviation = 0
    /\ self.current_volatility > 0
    /\ Script_calculate_spreads(self, 0).bid_spread > Script_bid_spread
    /\ Script_calculate_spreads(self, 0).ask_spread > Script_ask_spread

\* C40: OrderBookAnalyzer.get_liquidity_imbalance returns
\* (total_bid - total_ask) / (total_bid + total_ask) over at most depth_levels
\* entries per side (here rounded down to 1e-4); the result is in [-1, 1] for
\* non-negative amounts, and it is 0 when both sides are empty or sum to zero.
C40_LiquidityImbalance ==
    (strat = "OrderBookAnalyzer" /\ outcome = "get_liquidity_imbalance")
       => LET bids == market.order_book.bid_entries
              asks == market.order_book.ask_entries
              counted(entries) ==
                  {i \in 1..Len(entries) : i <= self.depth_levels}
              total(entries) ==
                  SumSeq([i \in 1..Cardinality(counted(entries)) |-> entries[i]])
              total_bid == total(bids)
              total_ask == total(asks)
          IN  /\ market.imbalance >= 0 - RatioOne
              /\ market.imbalance <= RatioOne
              /\ total_bid + total_ask = 0 => market.imbalance = 0
              /\ total_bid + total_ask > 0
                    => /\ market.imbalance * (total_bid + total_ask)
                             <= (total_bid - total_ask) * RatioOne
                       /\ (total_bid - total_ask) * RatioOne
                             < (market.imbalance + 1) * (total_bid + total_ask)

\* a book deeper than depth_levels whose third bid level would change the
\* result: only two levels per side are summed
C40_Witness ==
    /\ strat = "OrderBookAnalyzer"
    /\ outcome = "get_liquidity_imbalance"
    /\ self.depth_levels = 2
    /\ market.order_book.bid_entries = <<1, 0, 3>>
    /\ market.order_book.ask_entries = <<3>>
    /\ market.imbalance = 0 - (RatioOne \div 2)

\* two empty sides, and levels that sum to zero: the result is 0
C40_WitnessEmpty ==
    /\ strat = "OrderBookAnalyzer"
    /\ outcome = "get_liquidity_imbalance"
    /\ market.order_book.bid_entries = <<>>
    /\ market.order_book.ask_entries = <<>>
    /\ market.imbalance = 0

C40_WitnessZeroSum ==
    /\ strat = "OrderBookAnalyzer"
    /\ outcome = "get_liquidity_imbalance"
    /\ self.depth_levels = 2
    /\ market.order_book.bid_entries = <<0, 0, 3>>
    /\ market.order_book.ask_entries = <<0>>
    /\ market.imbalance = 0

=============================================================================
